---- MODULE Spec2Model ----
(***************************************************************************)
(* A model of the symbolic-object core of the volatility framework: object *)
(* construction and casting (interfaces/objects.py), the typed objects     *)
(* (objects/__init__.py) and the intrusive list walk of the windows        *)
(* extensions (symbols/windows/extensions/__init__.py).                    *)
(*                                                                         *)
(* Each part of the program has its own group of variables and its own     *)
(* specification; a specification keeps the other groups at their idle     *)
(* value.                                                                  *)
(***************************************************************************)
EXTENDS Integers, Sequences, FiniteSets, TLC

VARIABLES
    obj,          \* SpecObj: the object under construction/cast (its _vol ChainMap), or NoObject
    castResult,   \* SpecObj: outcome of the last cast() call
    templates,    \* SpecTemplate: the Template instances alive, in creation order
    tplOp,        \* SpecTemplate: the last Template operation performed
    links,        \* SpecList: per list entry offset, the pointer stored in the member the walk follows
    anchor,       \* SpecList: the offset the anchor _LIST_ENTRY (self) was constructed with
    forward,      \* SpecList: to_list's forward argument
    sentinel,     \* SpecList: to_list's sentinel argument
    relative_offset, \* SpecList: offset of the link member in the containing type
    listPc,       \* SpecList: where the generator stands
    link,         \* SpecList: link.vol.offset
    seen,         \* SpecList: the seen set
    yielded,      \* SpecList: offsets of the objects yielded so far, in order
    image,        \* SpecPointer: the bytes of the layer, by offset
    ptr,          \* SpecPointer: the Pointer constructed last, or NoPointer
    struct,       \* SpecStruct: the Struct instance (its _vol), or NoStruct
    concrete,     \* SpecStruct: _concrete_members, member name -> member object
    heapSize,     \* SpecStruct: number of member objects constructed so far
    firstMember,  \* SpecStruct: per member name, the object its first access returned
    access,       \* SpecStruct: outcome of the last attribute access
    array,        \* SpecArray: the Array instance (its _vol), or NoArray
    builtCount,   \* SpecArray: the count the Array was constructed with
    arrayOp,      \* SpecArray: outcome of the last operation on the Array
    enum,         \* SpecEnum: the Enumeration (choices, _inverse_choices) or the error of its construction
    enumOp,       \* SpecEnum: outcome of the last lookup()
    bitfield,     \* SpecBitField: the BitField constructed last, or NoBitField
    hive,         \* SpecRegistry: the RegistryHive (its maximum addresses and its storage maps), or NoHive
    regOp,        \* SpecRegistry: outcome of the last _translate()
    keyTree,      \* SpecHiveKeys: the key nodes of the hive (names and subkeys), or NoTree
    keyOp,        \* SpecHiveKeys: outcome of the last get_key()
    vmLayers,     \* SpecVmware: names of the layers in context.memory
    vmTables,     \* SpecVmware: names of the tables in context.symbol_space
    vmLayer,      \* SpecVmware: the VmwareLayer under construction or constructed, or NoVmLayer
    vmOp,         \* SpecVmware: outcome of the last stack(), with the metadata it read
    natDicts,     \* SpecNative: the dictionaries in memory, by identity: std_ctypes, native_types, then the tables' own
    natTables,    \* SpecNative: the NativeTables built so far, by the name of the variable that holds them
    natPc,        \* SpecNative: the statement of native.py to run next
    natOp,        \* SpecNative: outcome of the last get_type()
    wrImage,      \* SpecWrite: the bytes of the layer the objects live on
    wrOp,         \* SpecWrite: outcome of the last write(), with the bytes before it
    deref,        \* SpecDeref: outcome of the last dereference() of the Pointer
    amList,       \* SpecAutomagic: the automagics argument of run(), a list
    amConfigurable, \* SpecAutomagic: whether the configurable argument is a ConfigurableInterface
    amPc,         \* SpecAutomagic: the statement of run() to execute next
    amIndex,      \* SpecAutomagic: position in the list of the loop that is running
    amInvoked,    \* SpecAutomagic: positions of the automagics called so far, in call order
    amExceptions, \* SpecAutomagic: the exceptions list: positions of the automagics whose exception it holds
    amResult,     \* SpecAutomagic: how run() ended: the list returned or the exception raised
    rtOp,         \* SpecRoundTrip: the last write() of an Integer and the construction that followed it
    hmLayers,     \* SpecHiveMapping: names of the layers in context.memory
    hmHive,       \* SpecHiveMapping: the RegistryHive layer as its constructor left it, or the exception it raised
    hmOp,         \* SpecHiveMapping: outcome of the last mapping() or is_valid()
    pdbKernels,   \* SpecPdbScan: potential_kernels, one entry per virtual layer name, in dictionary order
    pdbPc,        \* SpecPdbScan: the statement of determine_valid_kernels to execute next
    pdbLayer,     \* SpecPdbScan: position of the virtual layer the outer loop is at
    pdbMethod,    \* SpecPdbScan: position in methods of the method to call next
    pdbCalls,     \* SpecPdbScan: the method calls made so far, as <<layer, method>>
    pdbValid,     \* SpecPdbScan: valid_kernels, as the set of layers it has an entry for
    pdbResult,    \* SpecPdbScan: the dictionary returned
    psProcesses,  \* SpecPsTree: self._processes, pid -> process (its p_ppid and vol.offset)
    psChildren,   \* SpecPsTree: self._children, ppid -> set of pids
    psLevels,     \* SpecPsTree: self._levels, pid -> level
    psPc,         \* SpecPsTree: where find_level stands
    psPid,        \* SpecPsTree: the pid argument of find_level
    psSeen,       \* SpecPsTree: the seen set
    psLevel,      \* SpecPsTree: the level counter
    psProc,       \* SpecPsTree: the pid of proc, or NoProc for None
    rcTemplate,   \* SpecReplaceChild: the Struct template (its _vol), or NoTemplate
    rcOp,         \* SpecReplaceChild: outcome of the last replace_child(), with the members before it
    thCache,      \* SpecStructThreads: _concrete_members of the one Struct, member name -> member object
    thHeap,       \* SpecStructThreads: number of member objects constructed so far
    thPc,         \* SpecStructThreads: per caller, where its __getattr__ stands
    thAttr,       \* SpecStructThreads: per caller, the attr it asks for
    thMember,     \* SpecStructThreads: per caller, the local variable member
    thResult,     \* SpecStructThreads: per caller, what its last completed access returned
    thFirst,      \* SpecStructThreads: per caller, what its first access to Flink returned
    thSettled     \* SpecStructThreads: per caller, the cached object of attr when its access began, if no caller was then constructing or storing it

objVars == <<obj, castResult>>
tplVars == <<templates, tplOp>>
listVars == <<links, anchor, forward, sentinel, relative_offset, listPc, link, seen, yielded>>
ptrVars == <<image, ptr>>
structVars == <<struct, concrete, heapSize, firstMember, access>>
arrayVars == <<array, builtCount, arrayOp>>
enumVars == <<enum, enumOp>>
bitVars == <<bitfield>>
regVars == <<hive, regOp>>
keyVars == <<keyTree, keyOp>>
vmVars == <<vmLayers, vmTables, vmLayer, vmOp>>
natVars == <<natDicts, natTables, natPc, natOp>>
wrVars == <<wrImage, wrOp>>
derefVars == <<deref>>
amVars == <<amList, amConfigurable, amPc, amIndex, amInvoked, amExceptions, amResult>>
rtVars == <<rtOp>>
hmVars == <<hmLayers, hmHive, hmOp>>
pdbVars == <<pdbKernels, pdbPc, pdbLayer, pdbMethod, pdbCalls, pdbValid, pdbResult>>
psVars == <<psProcesses, psChildren, psLevels, psPc, psPid, psSeen, psLevel, psProc>>
rcVars == <<rcTemplate, rcOp>>
thVars == <<thCache, thHeap, thPc, thAttr, thMember, thResult, thFirst, thSettled>>
vars == <<objVars, tplVars, listVars, ptrVars, structVars, arrayVars, enumVars, bitVars, regVars, keyVars, vmVars, natVars, wrVars, derefVars, amVars, rtVars, hmVars, pdbVars, psVars, rcVars, thVars>>

\* The value of each group while a specification about another part runs.
NoObject == <<>>
NoCast == [status |-> "none"]
NoStruct == <<>>
NoAccess == [status |-> "none"]
IdleStruct ==
    /\ struct = NoStruct /\ concrete = [a \in {} |-> 0] /\ heapSize = 0
    /\ firstMember = [a \in {} |-> 0] /\ access = NoAccess
NoArray == <<>>
NoArrayOp == [op |-> "none"]
IdleArray == array = NoArray /\ builtCount = 0 /\ arrayOp = NoArrayOp
NoEnum == [status |-> "none"]
NoEnumOp == [op |-> "none"]
IdleEnum == enum = NoEnum /\ enumOp = NoEnumOp
NoBitField == [status |-> "none"]
IdleBit == bitfield = NoBitField
NoHive == [status |-> "none"]
NoRegOp == [op |-> "none"]
IdleReg == hive = NoHive /\ regOp = NoRegOp
NoTree == [status |-> "none"]
NoKeyOp == [op |-> "none"]
IdleKey == keyTree = NoTree /\ keyOp = NoKeyOp
NoVmLayer == [status |-> "none"]
NoVmOp == [op |-> "none"]
IdleVm == vmLayers = {} /\ vmTables = {} /\ vmLayer = NoVmLayer /\ vmOp = NoVmOp
NoNatOp == [op |-> "none"]
IdleNat == natDicts = <<>> /\ natTables = <<>> /\ natPc = "std_ctypes" /\ natOp = NoNatOp
NoWrOp == [op |-> "none"]
IdleWr == wrImage = <<>> /\ wrOp = NoWrOp
NoDeref == [op |-> "none"]
IdleDeref == deref = NoDeref
NoAmResult == [status |-> "none"]
IdleAm ==
    /\ amList = <<>> /\ amConfigurable = TRUE /\ amPc = "idle" /\ amIndex = 0
    /\ amInvoked = <<>> /\ amExceptions = <<>> /\ amResult = NoAmResult
NoRtOp == [op |-> "none"]
IdleRt == rtOp = NoRtOp
NoHmHive == [status |-> "none"]
NoHmOp == [op |-> "none"]
IdleHm == hmLayers = {} /\ hmHive = NoHmHive /\ hmOp = NoHmOp
NoPdbResult == [status |-> "none"]
IdlePdb ==
    /\ pdbKernels = <<>> /\ pdbPc = "idle" /\ pdbLayer = 0 /\ pdbMethod = 0
    /\ pdbCalls = <<>> /\ pdbValid = {} /\ pdbResult = NoPdbResult
IdlePs ==
    /\ psProcesses = [p \in {} |-> 0] /\ psChildren = [p \in {} |-> {}] /\ psLevels = [p \in {} |-> 0]
    /\ psPc = "idle" /\ psPid = 0 /\ psSeen = {} /\ psLevel = 0 /\ psProc = 0
NoTemplate == <<>>
NoRcOp == [op |-> "none"]
IdleRc == rcTemplate = NoTemplate /\ rcOp = NoRcOp
IdleTh ==
    /\ thCache = [a \in {} |-> 0] /\ thHeap = 0 /\ thPc = <<>> /\ thAttr = <<>>
    /\ thMember = <<>> /\ thResult = <<>> /\ thFirst = <<>> /\ thSettled = <<>>
IdleObj == obj = NoObject /\ castResult = NoCast
IdleTpl == templates = <<>> /\ tplOp = "none"
NoPointer == [status |-> "none"]
IdlePtr == image = <<>> /\ ptr = NoPointer
IdleList ==
    /\ links = [n \in {} |-> 0] /\ anchor = 0 /\ forward = TRUE /\ sentinel = TRUE
    /\ relative_offset = 0 /\ listPc = "idle" /\ link = 0 /\ seen = {} /\ yielded = <<>>

----------------------------------------------------------------------------
(* Bounds of the model *)

\* Address width, in bits, of the narrow layer; the wide layer has one bit more.
AddrBits == 2
\* The most Template instances alive at once.
MaxTemplates == 3
\* The number of list entries in memory (at offsets 0 .. NumNodes - 1).
NumNodes == 3
\* The number of bytes of the image a Pointer is read from.
ImageSize == 4
\* The most member objects a Struct instance is let to construct.
MaxMemberObjects == 4
\* The largest count of an Array.
MaxCount == 3
\* The largest value of an enumeration choice.
MaxChoiceValue == 2
\* The longest key path given to get_key, in characters.
MaxKeyLen == 4
\* The largest number of regions of a VMware metadata file.
MaxRegions == 2
\* The number of bytes of the layer that objects are written to.
WriteSize == 2
\* The longest list of automagics given to run().
MaxAutomagics == 3
\* The most processes pslist yields while a RegistryHive is constructed.
MaxProcesses == 2
\* The most virtual layers in potential_kernels.
MaxVirtualLayers == 2
\* The largest pid of a process table (pids are 1 .. MaxPid).
MaxPid == 3

----------------------------------------------------------------------------
(* Integers and bit operations, as Python's int computes them *)

RECURSIVE Pow2(_)
Pow2(n) == IF n = 0 THEN 1 ELSE 2 * Pow2(n - 1)

RECURSIVE NatAnd(_, _)
NatAnd(a, b) ==
    IF a = 0 \/ b = 0 THEN 0
    ELSE (IF a % 2 = 1 /\ b % 2 = 1 THEN 1 ELSE 0) + 2 * NatAnd(a \div 2, b \div 2)

RECURSIVE BitLength(_)
BitLength(n) == IF n = 0 THEN 0 ELSE 1 + BitLength(n \div 2)

\* x & m for a mask m >= 0 and any integer x (a negative x is an infinite
\* two's complement, so only its residue below the mask's width matters).
And(x, m) == NatAnd(x % Pow2(BitLength(m)), m)

----------------------------------------------------------------------------
(* Dictionaries and collections.ChainMap *)

EmptyMap == [k \in {} |-> 0]

\* The dictionary a overridden/extended by b (dict.update).
Updated(a, b) ==
    [k \in DOMAIN a \cup DOMAIN b |-> IF k \in DOMAIN b THEN b[k] ELSE a[k]]

Without(a, keys) == [k \in DOMAIN a \ keys |-> a[k]]

ChainKeys(chain) == UNION {DOMAIN chain[i] : i \in 1..Len(chain)}

\* ChainMap.__getitem__: the first map of the chain that holds the key wins.
ChainGet(chain, key) ==
    LET i == CHOOSE n \in 1..Len(chain) :
                 /\ key \in DOMAIN chain[n]
                 /\ \A j \in 1..(n - 1) : key \notin DOMAIN chain[j]
    IN chain[i][key]

\* dict(**chain): every key of the chain with the value a lookup gives.
ChainFlat(chain) == [k \in ChainKeys(chain) |-> ChainGet(chain, k)]

\* ChainMap.__setitem__ / update: writes go to the first map only.
ChainUpdate(chain, new) == [chain EXCEPT ![1] = Updated(chain[1], new)]

----------------------------------------------------------------------------
(* Layers and names *)

LayerNames == {"primary", "wide"}

AddressMask(layer_name) ==
    IF layer_name = "primary" THEN Pow2(AddrBits) - 1 ELSE Pow2(AddrBits + 1) - 1

\* Offsets handed to constructors: up to twice the wide layer's address space.
Offsets == 0..(Pow2(AddrBits + 2) - 1)

BANG == "!"

\* Type names are strings, modelled as sequences of characters.
Contains(s, c) == \E i \in 1..Len(s) : s[i] = c

\* s.split(BANG)[0]: the part before the first separator, all of s if none.
SplitFirst(s) ==
    IF Contains(s, BANG)
    THEN LET i == CHOOSE n \in 1..Len(s) :
                      s[n] = BANG /\ \A j \in 1..(n - 1) : s[j] # BANG
         IN SubSeq(s, 1, i - 1)
    ELSE s

NoName == "None"
NoParent == 0

----------------------------------------------------------------------------
(* interfaces/objects.py: ObjectInformation, ObjectInterface, Template *)

ObjectInformation(layer_name, offset, member_name, parent, native_layer_name) ==
    [layer_name |-> layer_name,
     offset |-> offset,
     member_name |-> member_name,
     parent |-> parent,
     native_layer_name |->
         IF native_layer_name = NoName THEN layer_name ELSE native_layer_name]

\* ObjectInterface.__init__: the _vol ChainMap of the new object.
ObjectInterfaceInit(type_name, object_info, kwargs) ==
    LET mask == AddressMask(object_info.layer_name)
        normalized_offset == And(object_info.offset, mask)
    IN <<EmptyMap, object_info,
         [type_name |-> type_name, offset |-> normalized_offset], kwargs>>

\* obj.vol.<attr>
Vol(o, attr) == ChainGet(o, attr)

\* Template.__init__: the _vol ChainMap (empty_dict, _arguments, type_name).
TemplateInit(type_name, arguments) ==
    <<EmptyMap, arguments, [type_name |-> type_name]>>

\* Template.clone, as a plausible slip would have it: built from all of _vol.
TemplateCloneAll(t) ==
    LET args == ChainFlat(t)
    IN TemplateInit(args.type_name, Without(args, {"type_name"}))

\* Template.clone: self.__class__(**self._vol.parents.new_child())
TemplateClone(t) ==
    LET args == ChainFlat(<<EmptyMap>> \o Tail(t))
    IN TemplateInit(args.type_name, Without(args, {"type_name"}))

\* Template.update_vol
TemplateUpdateVol(t, new_arguments) == ChainUpdate(t, new_arguments)

\* ObjectTemplate.__call__: the template's vol entries become the constructor's
\* type_name and keyword arguments.
TemplateCall(t, object_info) ==
    LET args == ChainFlat(t)
    IN ObjectInterfaceInit(args.type_name, object_info,
                           Without(args, {"type_name", "object_class"}))

\* SymbolSpace.get_type: a qualified name table!type resolves when the table is
\* loaded; anything else raises.
SymbolTables == {<<"a">>, <<"b">>}

Resolvable(type_name) ==
    /\ Len(type_name) = 3
    /\ type_name[2] = BANG
    /\ type_name[3] # BANG
    /\ <<type_name[1]>> \in SymbolTables

SymbolSpaceGetType(type_name) == TemplateInit(type_name, [object_class |-> "Void"])

\* The name cast() asks the symbol space for.
CastTypeName(o, new_type_name) ==
    IF ~Contains(new_type_name, BANG)
    THEN SplitFirst(Vol(o, "type_name")) \o <<BANG>> \o new_type_name
    ELSE new_type_name

\* ObjectInterface.cast with the native layer left out of the new ObjectInformation.
CastObjectDropNative(o, new_type_name, additional) ==
    LET object_template ==
            TemplateUpdateVol(TemplateClone(SymbolSpaceGetType(CastTypeName(o, new_type_name))),
                              additional)
        object_info == ObjectInformation(Vol(o, "layer_name"), Vol(o, "offset"),
                                         Vol(o, "member_name"), Vol(o, "parent"), NoName)
    IN TemplateCall(object_template, object_info)

\* ObjectInterface.cast: the object it returns.
CastObject(o, new_type_name, additional) ==
    LET object_template ==
            TemplateUpdateVol(TemplateClone(SymbolSpaceGetType(CastTypeName(o, new_type_name))),
                              additional)
        object_info == ObjectInformation(Vol(o, "layer_name"), Vol(o, "offset"),
                                         Vol(o, "member_name"), Vol(o, "parent"),
                                         Vol(o, "native_layer_name"))
    IN TemplateCall(object_template, object_info)

----------------------------------------------------------------------------
(* SpecObj: constructing an object and casting it *)

ObjTypeNames == {<<"a", "!", "x">>, <<"b", "!", "y">>, <<"x">>, <<"a", "!", "x", "!", "y">>}
NewTypeNames == {<<"y">>, <<"b", "!", "x">>, <<"a", "!", "y">>, <<"x", "y">>, <<"c", "!", "x">>}
MemberNames == {NoName, "Flink"}
Parents == {NoParent, 1}
Additionals == {EmptyMap, [max_length |-> 4], [offset |-> 0]}

\* A template called with an ObjectInformation: ObjectInterface.__init__ runs.
Construct ==
    /\ obj = NoObject
    /\ \E layer_name \in LayerNames, offset \in Offsets, type_name \in ObjTypeNames,
          member_name \in MemberNames, parent \in Parents,
          native \in LayerNames \cup {NoName} :
          obj' = ObjectInterfaceInit(type_name,
                     ObjectInformation(layer_name, offset, member_name, parent, native),
                     EmptyMap)
    /\ castResult' = NoCast
    /\ UNCHANGED <<tplVars, listVars, ptrVars, structVars, arrayVars, enumVars, bitVars, regVars, keyVars, vmVars, natVars, wrVars, derefVars, amVars, rtVars, hmVars, pdbVars, psVars, rcVars, thVars>>

\* obj.cast(new_type_name, **additional)
Cast ==
    /\ obj # NoObject
    /\ castResult = NoCast
    /\ \E new_type_name \in NewTypeNames, additional \in Additionals :
          LET requested == CastTypeName(obj, new_type_name)
          IN IF Resolvable(requested)
             THEN castResult' = [status |-> "returned",
                                 new_type_name |-> new_type_name,
                                 requested |-> requested,
                                 object |-> CastObject(obj, new_type_name, additional)]
             ELSE castResult' = [status |-> "raised",
                                 new_type_name |-> new_type_name,
                                 requested |-> requested]
    /\ UNCHANGED obj
    /\ UNCHANGED <<tplVars, listVars, ptrVars, structVars, arrayVars, enumVars, bitVars, regVars, keyVars, vmVars, natVars, wrVars, derefVars, amVars, rtVars, hmVars, pdbVars, psVars, rcVars, thVars>>

\* The caller goes on with the object the cast returned.
UseCast ==
    /\ castResult.status = "returned"
    /\ obj' = castResult.object
    /\ castResult' = NoCast
    /\ UNCHANGED <<tplVars, listVars, ptrVars, structVars, arrayVars, enumVars, bitVars, regVars, keyVars, vmVars, natVars, wrVars, derefVars, amVars, rtVars, hmVars, pdbVars, psVars, rcVars, thVars>>

InitObj == IdleObj /\ IdleTpl /\ IdleList /\ IdlePtr /\ IdleStruct /\ IdleArray /\ IdleEnum /\ IdleBit /\ IdleReg /\ IdleKey /\ IdleVm /\ IdleNat /\ IdleWr /\ IdleDeref /\ IdleAm /\ IdleRt /\ IdleHm /\ IdlePdb /\ IdlePs /\ IdleRc /\ IdleTh
NextObj == Construct \/ Cast \/ UseCast
SpecObj == InitObj /\ [][NextObj]_vars

\* The ObjectInformation an object was constructed with (the second map of _vol).
ObjectInfoOf(o) == o[2]

\* C1: every constructed object reports as vol.offset the offset of its
\* ObjectInformation ANDed with the address mask of its layer.
C1_OffsetIsMasked ==
    obj # NoObject =>
        Vol(obj, "offset") =
            And(ObjectInfoOf(obj).offset, AddressMask(ObjectInfoOf(obj).layer_name))

\* C9: a cast returns an object with the layer, offset, member name, parent and
\* native layer of the object it was called on, whatever the overrides, and
\* its type name is the one asked for, qualified with the table part of the
\* source's type name when it names no table.
C9_CastPreservesIdentity ==
    castResult.status = "returned" =>
        LET new == castResult.object
            asked == castResult.new_type_name
        IN /\ Vol(new, "layer_name") = Vol(obj, "layer_name")
           /\ Vol(new, "offset") = Vol(obj, "offset")
           /\ Vol(new, "member_name") = Vol(obj, "member_name")
           /\ Vol(new, "parent") = Vol(obj, "parent")
           /\ Vol(new, "native_layer_name") = Vol(obj, "native_layer_name")
           /\ Vol(new, "type_name") = castResult.requested
           /\ (Contains(asked, BANG) => castResult.requested = asked)
           /\ (~Contains(asked, BANG) =>
                  \E table \in {<<"a">>, <<"b">>, <<"x">>} :
                      /\ castResult.requested = table \o <<BANG>> \o asked
                      /\ \/ Vol(obj, "type_name") = table
                         \/ /\ Len(Vol(obj, "type_name")) > Len(table)
                            /\ SubSeq(Vol(obj, "type_name"), 1, Len(table) + 1)
                                   = table \o <<BANG>>)

\* C9's case: an unqualified cast with an offset override, of an object whose
\* offset lies above its layer's mask and whose native layer is another layer.
C9_Witness ==
    /\ castResult.status = "returned"
    /\ ~Contains(castResult.new_type_name, BANG)
    /\ "offset" \in DOMAIN castResult.object[4]
    /\ Vol(obj, "offset") > AddressMask(Vol(obj, "layer_name"))
    /\ Vol(obj, "native_layer_name") # Vol(obj, "layer_name")
    /\ Vol(obj, "parent") # NoParent

----------------------------------------------------------------------------
(* SpecTemplate: Template instances, their clones and update_vol *)

TemplateTypeNames == {<<"a", "!", "x">>}
TemplateArguments == {[object_class |-> "String", max_length |-> 1],
                      [object_class |-> "Array", count |-> 2]}
NewArguments == {[max_length |-> 4], [count |-> 0], [type_name |-> <<"a", "!", "z">>]}

\* A Template instance: its _vol, and for the record what its constructor was
\* given, which instance it was cloned from (0: none) and what update_vol has
\* been given on this instance so far.
Instance(type_name, arguments, origin) ==
    [vol |-> TemplateInit(type_name, arguments),
     ctor |-> [type_name |-> type_name, arguments |-> arguments],
     origin |-> origin,
     own |-> EmptyMap]

\* T.clone() as an instance: the constructor sees what TemplateClone passes.
CloneOf(i) ==
    LET c == TemplateClone(templates[i].vol)
    IN Instance(c[3].type_name, c[2], i)

Updating(inst, new_arguments) ==
    [inst EXCEPT !.vol = TemplateUpdateVol(inst.vol, new_arguments),
                 !.own = Updated(inst.own, new_arguments)]

\* Template(type_name, **arguments), as the symbol table builds one
NewTemplate ==
    /\ Len(templates) < MaxTemplates
    /\ \E type_name \in TemplateTypeNames, arguments \in TemplateArguments :
          templates' = Append(templates, Instance(type_name, arguments, 0))
    /\ tplOp' = "new"
    /\ UNCHANGED <<objVars, listVars, ptrVars, structVars, arrayVars, enumVars, bitVars, regVars, keyVars, vmVars, natVars, wrVars, derefVars, amVars, rtVars, hmVars, pdbVars, psVars, rcVars, thVars>>

\* T.update_vol(**new_arguments)
UpdateVol ==
    /\ \E i \in 1..Len(templates), new_arguments \in NewArguments :
          templates' = [templates EXCEPT ![i] = Updating(templates[i], new_arguments)]
    /\ tplOp' = "update_vol"
    /\ UNCHANGED <<objVars, listVars, ptrVars, structVars, arrayVars, enumVars, bitVars, regVars, keyVars, vmVars, natVars, wrVars, derefVars, amVars, rtVars, hmVars, pdbVars, psVars, rcVars, thVars>>

\* T.clone()
Clone ==
    /\ Len(templates) < MaxTemplates
    /\ \E i \in 1..Len(templates) : templates' = Append(templates, CloneOf(i))
    /\ tplOp' = "clone"
    /\ UNCHANGED <<objVars, listVars, ptrVars, structVars, arrayVars, enumVars, bitVars, regVars, keyVars, vmVars, natVars, wrVars, derefVars, amVars, rtVars, hmVars, pdbVars, psVars, rcVars, thVars>>

\* cast()'s use of a template: clone it, then update_vol the clone.
CastClone ==
    /\ Len(templates) < MaxTemplates
    /\ \E i \in 1..Len(templates), additional \in NewArguments :
          templates' = Append(templates, Updating(CloneOf(i), additional))
    /\ tplOp' = "cast"
    /\ UNCHANGED <<objVars, listVars, ptrVars, structVars, arrayVars, enumVars, bitVars, regVars, keyVars, vmVars, natVars, wrVars, derefVars, amVars, rtVars, hmVars, pdbVars, psVars, rcVars, thVars>>

InitTemplate == IdleTpl /\ IdleObj /\ IdleList /\ IdlePtr /\ IdleStruct /\ IdleArray /\ IdleEnum /\ IdleBit /\ IdleReg /\ IdleKey /\ IdleVm /\ IdleNat /\ IdleWr /\ IdleDeref /\ IdleAm /\ IdleRt /\ IdleHm /\ IdlePdb /\ IdlePs /\ IdleRc /\ IdleTh
NextTemplate == NewTemplate \/ UpdateVol \/ Clone \/ CastClone
SpecTemplate == InitTemplate /\ [][NextTemplate]_vars

\* What a template's vol exposes, as one dictionary.
Exposed(inst) == ChainFlat(inst.vol)

\* What a constructor call Template(type_name, **arguments) exposes.
Constructed(ctor) == Updated(ctor.arguments, [type_name |-> ctor.type_name])

\* C10: a clone is constructed with exactly the type name and arguments its
\* original was constructed with, whatever update_vol was given to either
\* before; and what a template's vol exposes is what it was constructed with
\* overridden by the update_vol calls made on that very instance, so a call
\* on a clone never shows through the original.
C10_CloneKeepsConstruction ==
    \A i \in 1..Len(templates) :
        /\ templates[i].origin # 0 =>
               templates[i].ctor = templates[templates[i].origin].ctor
        /\ Exposed(templates[i]) = Updated(Constructed(templates[i].ctor), templates[i].own)

\* C10's case: a template whose vol was overridden is cloned, the clone shows
\* the constructor's value, and the clone has an update_vol of its own that
\* the original does not show.
C10_Witness ==
    \E i \in 1..Len(templates) :
        LET o == templates[i].origin
        IN /\ o # 0
           /\ "max_length" \in DOMAIN templates[o].own
           /\ "max_length" \in DOMAIN templates[o].ctor.arguments
           /\ "count" \in DOMAIN templates[i].own
           /\ "count" \notin DOMAIN Exposed(templates[o])
           /\ Exposed(templates[i]).max_length = templates[o].ctor.arguments.max_length
           /\ Exposed(templates[o]).max_length # templates[o].ctor.arguments.max_length

----------------------------------------------------------------------------
(* SpecList: _LIST_ENTRY.to_list, one generator resumption per step *)

ListLayer == "primary"
Nodes == 0..(NumNodes - 1)
RelativeOffsets == {0, 2}

\* The anchor may have been constructed with an offset above the layer's mask.
AnchorOffsets == {n + k * (AddressMask(ListLayer) + 1) : n \in Nodes, k \in {0, 1}}

\* offset & mask on the list's layer, tabulated over the offsets of the model.
Masked == [o \in 0..(2 * AddressMask(ListLayer) + 1) |-> And(o, AddressMask(ListLayer))]

\* vol.offset of a _LIST_ENTRY constructed with the given offset, tabulated.
VolOffset ==
    [o \in 0..(2 * AddressMask(ListLayer) + 1) |->
        Vol(ObjectInterfaceInit(<<"_LIST_ENTRY">>,
                ObjectInformation(ListLayer, o, NoName, NoParent, NoName), EmptyMap),
            "offset")]

\* Struct.__getattr__ for the link member of the entry whose vol.offset is
\* given: the Pointer is constructed at mask & (offset + member offset), and
\* its value is masked (Pointer._struct_value).
LinkMember(entry_offset) == Masked[links[Masked[entry_offset]]]

\* Pointer.dereference: vol.offset of the object the pointer leads to.
Dereference(pointer) == VolOffset[Masked[pointer]]

\* vol.offset of the anchor: what ObjectInterface.__init__ makes of its offset.
AnchorVolOffset == VolOffset[anchor]

\* seen.add(link.vol.offset) forgotten
SeenAddLost(s, offset) == s

\* seen.add(link.vol.offset)
SeenAdd(s, offset) == s \cup {offset}

\* The walk can take NumNodes + 1 steps at most; the guard only keeps a walk
\* that would never end from growing the state without end.
MaxYields == NumNodes + 2

\* to_list up to the loop: the first link, the anchor's own entry when it is
\* no sentinel, and the seen set.
ToListStart ==
    /\ listPc = "start"
    /\ link' = Dereference(LinkMember(AnchorVolOffset))
    /\ yielded' = IF sentinel THEN <<>> ELSE <<AnchorVolOffset - relative_offset>>
    /\ seen' = {AnchorVolOffset}
    /\ listPc' = "loop"
    /\ UNCHANGED <<links, anchor, forward, sentinel, relative_offset>>
    /\ UNCHANGED <<objVars, tplVars, ptrVars, structVars, arrayVars, enumVars, bitVars, regVars, keyVars, vmVars, natVars, wrVars, derefVars, amVars, rtVars, hmVars, pdbVars, psVars, rcVars, thVars>>

\* One turn of the loop: yield the entry of the link, remember it, follow it.
ToListStep ==
    /\ listPc = "loop"
    /\ link \notin seen
    /\ Len(yielded) < MaxYields
    /\ yielded' = Append(yielded, link - relative_offset)
    /\ seen' = SeenAdd(seen, link)
    /\ link' = Dereference(LinkMember(link))
    /\ UNCHANGED <<links, anchor, forward, sentinel, relative_offset, listPc>>
    /\ UNCHANGED <<objVars, tplVars, ptrVars, structVars, arrayVars, enumVars, bitVars, regVars, keyVars, vmVars, natVars, wrVars, derefVars, amVars, rtVars, hmVars, pdbVars, psVars, rcVars, thVars>>

\* The loop ends: the next link has been seen.
ToListStop ==
    /\ listPc = "loop"
    /\ link \in seen
    /\ listPc' = "done"
    /\ UNCHANGED <<links, anchor, forward, sentinel, relative_offset, link, seen, yielded>>
    /\ UNCHANGED <<objVars, tplVars, ptrVars, structVars, arrayVars, enumVars, bitVars, regVars, keyVars, vmVars, natVars, wrVars, derefVars, amVars, rtVars, hmVars, pdbVars, psVars, rcVars, thVars>>

\* to_list is called on an anchor of some image: the links in memory, the
\* offset the anchor was constructed with and the arguments of the call.
ToListCall ==
    /\ listPc = "idle"
    /\ links' \in [Nodes -> Nodes]
    /\ anchor' \in AnchorOffsets
    /\ forward' \in BOOLEAN
    /\ sentinel' \in BOOLEAN
    /\ relative_offset' \in RelativeOffsets
    /\ listPc' = "start"
    /\ UNCHANGED <<link, seen, yielded>>
    /\ UNCHANGED <<objVars, tplVars, ptrVars, structVars, arrayVars, enumVars, bitVars, regVars, keyVars, vmVars, natVars, wrVars, derefVars, amVars, rtVars, hmVars, pdbVars, psVars, rcVars, thVars>>

InitList == IdleList /\ IdleObj /\ IdleTpl /\ IdlePtr /\ IdleStruct /\ IdleArray /\ IdleEnum /\ IdleBit /\ IdleReg /\ IdleKey /\ IdleVm /\ IdleNat /\ IdleWr /\ IdleDeref /\ IdleAm /\ IdleRt /\ IdleHm /\ IdlePdb /\ IdlePs /\ IdleRc /\ IdleTh
NextList == ToListCall \/ ToListStart \/ ToListStep \/ ToListStop
SpecList == InitList /\ [][NextList]_vars
\* The consumer of the generator keeps asking for the next entry.
ToListResume == ToListStart \/ ToListStep \/ ToListStop
SpecListFair == SpecList /\ WF_vars(ToListResume)

\* The entries linked from the anchor, in link order, up to the first link
\* that leads back to the anchor (closed) or to an entry already walked.
RECURSIVE Chain(_, _)
Chain(n, acc) ==
    IF n = Masked[anchor] THEN [closed |-> TRUE, nodes |-> acc]
    ELSE IF \E i \in 1..Len(acc) : acc[i] = n THEN [closed |-> FALSE, nodes |-> acc]
    ELSE Chain(links[n], Append(acc, n))

ListFromAnchor == Chain(links[Masked[anchor]], <<>>)

\* C2: every walk that is started ends, whatever the links, the direction
\* and the sentinel flag.
C2_ToListTerminates == (listPc = "start") ~> (listPc = "done")

\* C2's case: a walk has ended on a list whose links run into a cycle that
\* does not pass through the anchor, after more than one yield.
C2_Witness ==
    /\ listPc = "done"
    /\ ~ListFromAnchor.closed
    /\ Len(yielded) >= 2
    /\ link # Masked[anchor]

\* C3: with the anchor as sentinel, a list of N distinct entries closed on the
\* anchor yields exactly those N entries in link order, each at its link
\* offset minus the relative offset; any list yields no offset twice and at
\* most one entry more than the distinct entries linked from the anchor.
C3_SentinelYields ==
    (listPc = "done" /\ sentinel) =>
        LET list == ListFromAnchor
        IN /\ list.closed =>
                  yielded = [i \in 1..Len(list.nodes) |-> list.nodes[i] - relative_offset]
           /\ \A i, j \in 1..Len(yielded) : yielded[i] = yielded[j] => i = j
           /\ Len(yielded) <= Len(list.nodes) + 1

----------------------------------------------------------------------------
(* SpecPointer: a Pointer constructed from the bytes of a layer *)

\* struct formats: size in bytes, signedness and byte order.
StructFormats ==
    {[name |-> "<B", size |-> 1, signed |-> FALSE, little |-> TRUE],
     [name |-> "<b", size |-> 1, signed |-> TRUE, little |-> TRUE],
     [name |-> "<H", size |-> 2, signed |-> FALSE, little |-> TRUE],
     [name |-> ">H", size |-> 2, signed |-> FALSE, little |-> FALSE],
     [name |-> "<h", size |-> 2, signed |-> TRUE, little |-> TRUE],
     [name |-> "<i", size |-> 4, signed |-> TRUE, little |-> TRUE]}

ByteValues == {0, 1, 127, 128, 255}

\* struct.calcsize
CalcSize(format) == format.size

Reversed(seq) == [i \in 1..Len(seq) |-> seq[Len(seq) + 1 - i]]

\* The unsigned value of little-endian bytes.
RECURSIVE Unsigned(_)
Unsigned(bytes) ==
    IF bytes = <<>> THEN 0 ELSE Head(bytes) + Pow2(8) * Unsigned(Tail(bytes))

\* struct.unpack of one integer: two's complement for the signed formats.
Unpack(format, data) ==
    LET bytes == IF format.little THEN data ELSE Reversed(data)
        top == bytes[Len(bytes)]
        low == Unsigned(SubSeq(bytes, 1, Len(bytes) - 1))
        scale == Pow2(8 * (Len(bytes) - 1))
    IN IF format.signed /\ top >= 128
       THEN low + (top - Pow2(8)) * scale
       ELSE low + top * scale

\* context.memory.read(layer_name, offset, length)
Read(offset, length) == SubSeq(image, offset + 1, offset + length)

\* PrimitiveObject._struct_value, which Pointer overrides: no mask.
PrimitiveStructValue(format, layer_name, offset) ==
    LET length == CalcSize(format)
        data == Read(offset, length)
    IN Unpack(format, data)

\* Pointer._struct_value
PointerStructValue(format, layer_name, offset) ==
    LET length == CalcSize(format)
        mask == AddressMask(layer_name)
        data == Read(offset, length)
    IN And(Unpack(format, data), mask)

\* The layer's bytes are those of some image.
LoadImage ==
    /\ image = <<>>
    /\ image' \in [1..ImageSize -> ByteValues]
    /\ UNCHANGED ptr
    /\ UNCHANGED <<objVars, tplVars, listVars, structVars, arrayVars, enumVars, bitVars, regVars, keyVars, vmVars, natVars, wrVars, derefVars, amVars, rtVars, hmVars, pdbVars, psVars, rcVars, thVars>>

\* PrimitiveObject.__new__ for a Pointer, with no new_value: the value comes
\* from the layer's bytes at the offset of the ObjectInformation.
PointerNew ==
    /\ image # <<>>
    /\ \E layer_name \in LayerNames, format \in StructFormats,
          offset \in 0..(ImageSize - 1) :
          /\ offset + CalcSize(format) <= ImageSize
          /\ ptr' = [status |-> "constructed",
                     layer_name |-> layer_name,
                     format |-> format,
                     offset |-> offset,
                     value |-> PointerStructValue(format, layer_name, offset)]
    /\ UNCHANGED image
    /\ UNCHANGED <<objVars, tplVars, listVars, structVars, arrayVars, enumVars, bitVars, regVars, keyVars, vmVars, natVars, wrVars, derefVars, amVars, rtVars, hmVars, pdbVars, psVars, rcVars, thVars>>

InitPointer == IdlePtr /\ IdleObj /\ IdleTpl /\ IdleList /\ IdleStruct /\ IdleArray /\ IdleEnum /\ IdleBit /\ IdleReg /\ IdleKey /\ IdleVm /\ IdleNat /\ IdleWr /\ IdleDeref /\ IdleAm /\ IdleRt /\ IdleHm /\ IdlePdb /\ IdlePs /\ IdleRc /\ IdleTh
NextPointer == LoadImage \/ PointerNew
SpecPointer == InitPointer /\ [][NextPointer]_vars

\* The integer the bytes under a constructed Pointer encode in its format.
Encoded(p) == Unpack(p.format, Read(p.offset, CalcSize(p.format)))

\* C4: the value of a Pointer constructed from bytes is a non-negative
\* integer no greater than the address mask of its layer, whatever the format
\* and the bytes.
C4_PointerWithinMask ==
    ptr.status = "constructed" =>
        /\ ptr.value >= 0
        /\ ptr.value <= AddressMask(ptr.layer_name)

\* C4's case: the bytes encode an address above the layer's mask.
C4_Witness ==
    /\ ptr.status = "constructed"
    /\ Encoded(ptr) > AddressMask(ptr.layer_name)
    /\ CalcSize(ptr.format) > 1
    /\ ptr.value > 0

----------------------------------------------------------------------------
(* SpecStruct: a Struct instance and the accesses to its members *)

\* The identity of the Struct instance itself, as a parent reference.
StructId == 100

PointerTemplate == TemplateInit(<<"a", "!", "p">>, [object_class |-> "Pointer"])
IntegerTemplate == TemplateInit(<<"a", "!", "i">>, [object_class |-> "Integer"])

\* members: name -> (relative_offset, template)
MemberLayouts ==
    {[Flink |-> <<0, PointerTemplate>>, Blink |-> <<1, PointerTemplate>>],
     [Flink |-> <<3, PointerTemplate>>, Size |-> <<6, IntegerTemplate>>]}

AttributeNames == {"Flink", "Blink", "Size", "Missing"}

\* self._concrete_members[attr] = member, forgotten
CacheStoreLost(cache, attr, member) == cache

\* self._concrete_members[attr] = member
CacheStore(cache, attr, member) == Updated(cache, [a \in {attr} |-> member])

\* The member object Struct.__getattr__ constructs for a declared member.
MemberObject(attr) ==
    LET layer_name == Vol(struct, "layer_name")
        mask == AddressMask(layer_name)
        member_offset == Vol(struct, "members")[attr][1]
        member == Vol(struct, "members")[attr][2]
    IN TemplateCall(member,
           ObjectInformation(layer_name,
                             And(Vol(struct, "offset") + member_offset, mask),
                             attr, StructId, NoName))

\* Struct.__init__ (called by the struct's template)
StructNew ==
    /\ struct = NoStruct
    /\ \E layer_name \in LayerNames, offset \in Offsets, members \in MemberLayouts :
          struct' = ObjectInterfaceInit(<<"a", "!", "s">>,
                        ObjectInformation(layer_name, offset, NoName, NoParent, NoName),
                        [size |-> 8, members |-> members])
    /\ concrete' = [a \in {} |-> 0]
    /\ UNCHANGED <<heapSize, firstMember, access>>
    /\ UNCHANGED <<objVars, tplVars, listVars, ptrVars, arrayVars, enumVars, bitVars, regVars, keyVars, vmVars, natVars, wrVars, derefVars, amVars, rtVars, hmVars, pdbVars, psVars, rcVars, thVars>>

\* Struct.__getattr__(attr): the cached member, or a new one that is cached,
\* or AttributeError.
GetAttr ==
    /\ struct # NoStruct
    /\ \E attr \in AttributeNames :
          IF attr \in DOMAIN concrete
          THEN /\ access' = [status |-> "returned", attr |-> attr, member |-> concrete[attr]]
               /\ UNCHANGED <<concrete, heapSize, firstMember>>
          ELSE IF attr \in DOMAIN Vol(struct, "members")
          THEN /\ heapSize < MaxMemberObjects
               /\ LET member == [id |-> heapSize + 1, vol |-> MemberObject(attr)]
                  IN /\ concrete' = CacheStore(concrete, attr, member)
                     /\ access' = [status |-> "returned", attr |-> attr, member |-> member]
                     /\ firstMember' =
                            IF attr \in DOMAIN firstMember THEN firstMember
                            ELSE Updated(firstMember, [a \in {attr} |-> member])
               /\ heapSize' = heapSize + 1
          ELSE /\ access' = [status |-> "AttributeError", attr |-> attr]
               /\ UNCHANGED <<concrete, heapSize, firstMember>>
    /\ UNCHANGED struct
    /\ UNCHANGED <<objVars, tplVars, listVars, ptrVars, arrayVars, enumVars, bitVars, regVars, keyVars, vmVars, natVars, wrVars, derefVars, amVars, rtVars, hmVars, pdbVars, psVars, rcVars, thVars>>

InitStruct == IdleStruct /\ IdleObj /\ IdleTpl /\ IdleList /\ IdlePtr /\ IdleArray /\ IdleEnum /\ IdleBit /\ IdleReg /\ IdleKey /\ IdleVm /\ IdleNat /\ IdleWr /\ IdleDeref /\ IdleAm /\ IdleRt /\ IdleHm /\ IdlePdb /\ IdlePs /\ IdleRc /\ IdleTh
NextStruct == StructNew \/ GetAttr
SpecStruct == InitStruct /\ [][NextStruct]_vars

\* C5: an access to a declared member returns the very object the first
\* access of that name returned, and that object was constructed on the
\* struct's layer at mask & (struct offset + relative offset), under the
\* member's name and with the struct as parent.
C5_MemberCached ==
    access.status = "returned" =>
        LET m == access.member
            layer_name == Vol(struct, "layer_name")
            member_offset == Vol(struct, "members")[access.attr][1]
        IN /\ m = firstMember[access.attr]
           /\ Vol(m.vol, "layer_name") = layer_name
           /\ Vol(m.vol, "offset") =
                  And(Vol(struct, "offset") + member_offset, AddressMask(layer_name))
           /\ Vol(m.vol, "member_name") = access.attr
           /\ Vol(m.vol, "parent") = StructId

\* C5's case: a member is returned from the cache after another member was
\* constructed in between, on a struct whose member lies across the mask.
C5_Witness ==
    /\ access.status = "returned"
    /\ heapSize >= 2
    /\ access.member.id = 1
    /\ Vol(struct, "offset") + Vol(struct, "members")[access.attr][1]
           > AddressMask(Vol(struct, "layer_name"))

----------------------------------------------------------------------------
(* SpecArray: an Array instance, its count, its length and its elements *)

\* The identity of the Array instance itself, as a parent reference.
ArrayId == 200

\* Element templates: Integer templates of the struct formats.
ElementTemplate(format) ==
    TemplateInit(<<"a", "!", "e">>, [object_class |-> "Integer", struct_format |-> format])

\* PrimitiveObject.VolTemplateProxy.size
TemplateSize(t) == CalcSize(ChainGet(t, "struct_format"))

Counts == 0..MaxCount
Indices == (0 - MaxCount - 1)..(MaxCount + 1)

\* range(count)[i] for an integer i: the index, or -1 for IndexError (no
\* index of a range is negative).
RangeItem(count, i) ==
    IF 0 <= i /\ i < count THEN i
    ELSE IF 0 - count <= i /\ i < 0 THEN count + i
    ELSE -1

\* The offset of the element, the mask left out.
ElementOffsetUnmasked(a, index) ==
    Vol(a, "offset") + TemplateSize(Vol(a, "subtype")) * index

\* mask & (self.vol.offset + (self.vol.subtype.size * index))
ElementOffset(a, index) ==
    And(Vol(a, "offset") + TemplateSize(Vol(a, "subtype")) * index,
        AddressMask(Vol(a, "layer_name")))

\* Array.__init__
ArrayNew ==
    /\ array = NoArray
    /\ \E layer_name \in LayerNames, offset \in Offsets, count \in Counts,
          format \in StructFormats :
          /\ array' = ChainUpdate(
                          ChainUpdate(
                              ObjectInterfaceInit(<<"a", "!", "array">>,
                                  ObjectInformation(layer_name, offset, NoName, NoParent, NoName),
                                  EmptyMap),
                              [count |-> count]),
                          [subtype |-> ElementTemplate(format)])
          /\ builtCount' = count
    /\ arrayOp' = [op |-> "new"]
    /\ UNCHANGED <<objVars, tplVars, listVars, ptrVars, structVars, enumVars, bitVars, regVars, keyVars, vmVars, natVars, wrVars, derefVars, amVars, rtVars, hmVars, pdbVars, psVars, rcVars, thVars>>

\* Array.count setter
SetCount ==
    /\ array # NoArray
    /\ \E value \in Counts : array' = ChainUpdate(array, [count |-> value])
    /\ arrayOp' = [op |-> "count"]
    /\ UNCHANGED builtCount
    /\ UNCHANGED <<objVars, tplVars, listVars, ptrVars, structVars, enumVars, bitVars, regVars, keyVars, vmVars, natVars, wrVars, derefVars, amVars, rtVars, hmVars, pdbVars, psVars, rcVars, thVars>>

\* Array.__len__
ArrayLen ==
    /\ array # NoArray
    /\ arrayOp' = [op |-> "len", value |-> Vol(array, "count")]
    /\ UNCHANGED <<array, builtCount>>
    /\ UNCHANGED <<objVars, tplVars, listVars, ptrVars, structVars, enumVars, bitVars, regVars, keyVars, vmVars, natVars, wrVars, derefVars, amVars, rtVars, hmVars, pdbVars, psVars, rcVars, thVars>>

\* Array.__getitem__(i) for an integer i
GetItem ==
    /\ array # NoArray
    /\ \E i \in Indices :
          LET index == RangeItem(Vol(array, "count"), i)
          IN IF index < 0
             THEN arrayOp' = [op |-> "getitem", i |-> i, status |-> "IndexError"]
             ELSE arrayOp' =
                      [op |-> "getitem", i |-> i, status |-> "returned",
                       element |-> TemplateCall(Vol(array, "subtype"),
                                       ObjectInformation(Vol(array, "layer_name"),
                                                         ElementOffset(array, index),
                                                         NoName, ArrayId, NoName))]
    /\ UNCHANGED <<array, builtCount>>
    /\ UNCHANGED <<objVars, tplVars, listVars, ptrVars, structVars, enumVars, bitVars, regVars, keyVars, vmVars, natVars, wrVars, derefVars, amVars, rtVars, hmVars, pdbVars, psVars, rcVars, thVars>>

InitArray == IdleArray /\ IdleObj /\ IdleTpl /\ IdleList /\ IdlePtr /\ IdleStruct /\ IdleEnum /\ IdleBit /\ IdleReg /\ IdleKey /\ IdleVm /\ IdleNat /\ IdleWr /\ IdleDeref /\ IdleAm /\ IdleRt /\ IdleHm /\ IdlePdb /\ IdlePs /\ IdleRc /\ IdleTh
NextArray == ArrayNew \/ SetCount \/ ArrayLen \/ GetItem
SpecArray == InitArray /\ [][NextArray]_vars

\* C6: len() is the count the array exposes, also after the setter; element
\* i of 0 .. count - 1 reports the offset mask & (base + i * element size);
\* an index outside -count .. count - 1 gives an index error and no element.
C6_ArrayElements ==
    LET c == Vol(array, "count")
        b == ObjectInfoOf(array).offset
        s == CalcSize(ChainGet(Vol(array, "subtype"), "struct_format"))
        m == AddressMask(Vol(array, "layer_name"))
    IN /\ arrayOp.op = "len" => arrayOp.value = c
       /\ arrayOp.op = "getitem" =>
              /\ (arrayOp.i < 0 - c \/ arrayOp.i >= c) <=> arrayOp.status = "IndexError"
              /\ (0 <= arrayOp.i /\ arrayOp.i < c) =>
                     /\ arrayOp.status = "returned"
                     /\ Vol(arrayOp.element, "offset") = And(b + arrayOp.i * s, m)

\* C6's case: after the setter raised the count, an element beyond the count
\* the array was built with is returned, at an offset that wraps at the mask.
C6_Witness ==
    /\ arrayOp.op = "getitem"
    /\ arrayOp.status = "returned"
    /\ arrayOp.i >= builtCount
    /\ arrayOp.i >= 2
    /\ ObjectInfoOf(array).offset
           + arrayOp.i * CalcSize(ChainGet(Vol(array, "subtype"), "struct_format"))
           > AddressMask(Vol(array, "layer_name"))

----------------------------------------------------------------------------
(* SpecEnum: an Enumeration, its construction and lookup *)

ChoiceNames == {"A", "B", "C"}
ChoiceValues == 0..MaxChoiceValue

\* A choices dictionary, as the sequence of its items in iteration order:
\* pairs (name, value) with no name twice.
ChoicesDicts ==
    {c \in UNION {[1..n -> ChoiceNames \X ChoiceValues] : n \in 0..Cardinality(ChoiceNames)} :
        \A i, j \in 1..Len(c) : c[i][1] = c[j][1] => i = j}

\* The loop of Enumeration.__init__ with the duplicate check left out: the
\* last name of a value wins.
RECURSIVE InverseLastWins(_, _)
InverseLastWins(items, inverse) ==
    IF items = <<>> THEN [raised |-> FALSE, inverse |-> inverse]
    ELSE LET k == Head(items)[1]
             v == Head(items)[2]
         IN InverseLastWins(Tail(items), Updated(inverse, [x \in {v} |-> k]))

\* The loop of Enumeration.__init__ over choices.items(): ValueError at the
\* first value that is already in _inverse_choices.
RECURSIVE Inverse(_, _)
Inverse(items, inverse) ==
    IF items = <<>> THEN [raised |-> FALSE, inverse |-> inverse]
    ELSE LET k == Head(items)[1]
             v == Head(items)[2]
         IN IF v \in DOMAIN inverse
            THEN [raised |-> TRUE, inverse |-> inverse]
            ELSE Inverse(Tail(items), Updated(inverse, [x \in {v} |-> k]))

\* lookup returning the dictionary's default instead of raising
EnumLookupDefault(inverse_choices, value) ==
    IF value \in DOMAIN inverse_choices
    THEN [status |-> "returned", name |-> inverse_choices[value]]
    ELSE [status |-> "returned", name |-> NoName]

\* Enumeration.lookup
EnumLookup(inverse_choices, value) ==
    IF value \in DOMAIN inverse_choices
    THEN [status |-> "returned", name |-> inverse_choices[value]]
    ELSE [status |-> "ValueError"]

\* Enumeration.__init__
EnumNew ==
    /\ enum = NoEnum
    /\ \E choices \in ChoicesDicts :
          LET built == Inverse(choices, [x \in {} |-> 0])
          IN IF built.raised
             THEN enum' = [status |-> "ValueError", choices |-> choices]
             ELSE enum' = [status |-> "constructed", choices |-> choices,
                           inverse_choices |-> built.inverse]
    /\ UNCHANGED enumOp
    /\ UNCHANGED <<objVars, tplVars, listVars, ptrVars, structVars, arrayVars, bitVars, regVars, keyVars, vmVars, natVars, wrVars, derefVars, amVars, rtVars, hmVars, pdbVars, psVars, rcVars, thVars>>

\* enumeration.lookup(value)
Lookup ==
    /\ enum.status = "constructed"
    /\ \E value \in 0..(MaxChoiceValue + 1) :
          enumOp' = [op |-> "lookup", value |-> value,
                     result |-> EnumLookup(enum.inverse_choices, value)]
    /\ UNCHANGED enum
    /\ UNCHANGED <<objVars, tplVars, listVars, ptrVars, structVars, arrayVars, bitVars, regVars, keyVars, vmVars, natVars, wrVars, derefVars, amVars, rtVars, hmVars, pdbVars, psVars, rcVars, thVars>>

InitEnum == IdleEnum /\ IdleObj /\ IdleTpl /\ IdleList /\ IdlePtr /\ IdleStruct /\ IdleArray /\ IdleBit /\ IdleReg /\ IdleKey /\ IdleVm /\ IdleNat /\ IdleWr /\ IdleDeref /\ IdleAm /\ IdleRt /\ IdleHm /\ IdlePdb /\ IdlePs /\ IdleRc /\ IdleTh
NextEnum == EnumNew \/ Lookup
SpecEnum == InitEnum /\ [][NextEnum]_vars

Declared(choices, value) == \E i \in 1..Len(choices) : choices[i][2] = value

Injective(choices) ==
    \A i, j \in 1..Len(choices) : choices[i][2] = choices[j][2] => i = j

\* C7: on a constructed Enumeration, lookup of the value of every declared
\* name returns that name, and lookup of a value no name declares fails with
\* ValueError.
C7_LookupInverts ==
    /\ enum.status = "constructed" =>
           \A i \in 1..Len(enum.choices) :
               EnumLookup(enum.inverse_choices, enum.choices[i][2])
                   = [status |-> "returned", name |-> enum.choices[i][1]]
    /\ enumOp.op = "lookup" =>
           IF Declared(enum.choices, enumOp.value)
           THEN /\ enumOp.result.status = "returned"
                /\ \E i \in 1..Len(enum.choices) :
                       /\ enum.choices[i][2] = enumOp.value
                       /\ enum.choices[i][1] = enumOp.result.name
           ELSE enumOp.result.status = "ValueError"

\* C7's case: a lookup of an undeclared value on an Enumeration with several
\* choices.
C7_Witness ==
    /\ enumOp.op = "lookup"
    /\ Len(enum.choices) >= 2
    /\ ~Declared(enum.choices, enumOp.value)
    /\ enumOp.result.status = "ValueError"

\* C8: the construction fails with ValueError exactly when two names have the
\* same value, and a constructed Enumeration has one name per value, so that
\* no lookup of a declared value can fail later.
C8_DuplicateRejectedAtConstruction ==
    /\ enum.status = "ValueError" => ~Injective(enum.choices)
    /\ enum.status = "constructed" =>
           /\ Injective(enum.choices)
           /\ \A i \in 1..Len(enum.choices) :
                  /\ enum.choices[i][2] \in DOMAIN enum.inverse_choices
                  /\ enum.inverse_choices[enum.choices[i][2]] = enum.choices[i][1]

\* C8's case: a construction that failed on the last of three choices.
C8_Witness ==
    /\ enum.status = "ValueError"
    /\ Len(enum.choices) = 3
    /\ enum.choices[1][2] # enum.choices[2][2]
    /\ enum.choices[3][2] = enum.choices[1][2]

----------------------------------------------------------------------------
(* SpecBitField: a BitField constructed over an Integer base type *)

\* The one-byte struct formats, as base types of a BitField.
BaseFormats == {f \in StructFormats : CalcSize(f) = 1}
BaseBytes == 0..255

\* x >> n of Python's int: the floor of x / 2^n, also for a negative x.
ShiftRight(x, n) == x \div Pow2(n)

\* (value >> start_bit) & ((1 << end_bit) - 1)
BitFieldValue(value, start_bit, end_bit) ==
    And(ShiftRight(value, start_bit), Pow2(end_bit) - 1)

\* BitField.__new__: the base Integer is read from the layer, then shifted
\* and masked.
BitFieldNew ==
    /\ bitfield = NoBitField
    /\ \E format \in BaseFormats, byte \in BaseBytes,
          start_bit \in 0..8, end_bit \in 0..8 :
          LET value == Unpack(format, <<byte>>)
          IN bitfield' = [status |-> "constructed",
                          format |-> format,
                          base |-> value,
                          start_bit |-> start_bit,
                          end_bit |-> end_bit,
                          value |-> BitFieldValue(value, start_bit, end_bit)]
    /\ UNCHANGED <<objVars, tplVars, listVars, ptrVars, structVars, arrayVars, enumVars, regVars, keyVars, vmVars, natVars, wrVars, derefVars, amVars, rtVars, hmVars, pdbVars, psVars, rcVars, thVars>>

InitBitField == IdleBit /\ IdleObj /\ IdleTpl /\ IdleList /\ IdlePtr /\ IdleStruct /\ IdleArray /\ IdleEnum /\ IdleReg /\ IdleKey /\ IdleVm /\ IdleNat /\ IdleWr /\ IdleDeref /\ IdleAm /\ IdleRt /\ IdleHm /\ IdlePdb /\ IdlePs /\ IdleRc /\ IdleTh
NextBitField == BitFieldNew
SpecBitField == InitBitField /\ [][NextBitField]_vars

\* The bits of v in positions [start_bit, end_bit), as a number.
BitsOf(v, start_bit, end_bit) == ShiftRight(v, start_bit) % Pow2(end_bit - start_bit)

\* C11: for 0 <= start_bit <= end_bit within the base width, the value of a
\* BitField is the number formed by the bits of the base value in positions
\* [start_bit, end_bit).
C11_BitFieldBits ==
    (/\ bitfield.status = "constructed"
     /\ bitfield.start_bit <= bitfield.end_bit
     /\ bitfield.end_bit <= 8 * CalcSize(bitfield.format))
        => bitfield.value = BitsOf(bitfield.base, bitfield.start_bit, bitfield.end_bit)

----------------------------------------------------------------------------
(* SpecRegistry: RegistryHive and the translation of a cell index *)

\* A cell index is a 32-bit number, kept as its bits (bit 0 the lowest): the
\* numbers with bit 31 set are beyond the integers of the model checker.
BitPositions == 0..31

\* The bits of an integer 0 <= n < 2^31.
IntToBits(n) == [i \in BitPositions |-> IF i = 31 THEN 0 ELSE (n \div Pow2(i)) % 2]

\* The integer of bits whose bit 31 is clear.
RECURSIVE BitsToIntFrom(_, _)
BitsToIntFrom(b, i) == IF i = 31 THEN 0 ELSE b[i] + 2 * BitsToIntFrom(b, i + 1)
BitsToInt(b) == BitsToIntFrom(b, 0)

\* (2 ** n) - 1 for 0 <= n <= 32
LowMask(n) == [i \in BitPositions |-> IF i < n THEN 1 ELSE 0]
XorBits(a, b) == [i \in BitPositions |-> (a[i] + b[i]) % 2]
AndBits(a, b) == [i \in BitPositions |-> a[i] * b[i]]
\* value >> n
ShiftRightBits(a, n) == [i \in BitPositions |-> IF i + n \in BitPositions THEN a[i + n] ELSE 0]

\* RegistryHive._mask with the high bit left out of the mask
RegistryMaskBelowHigh(value, high_bit, low_bit) ==
    LET high_mask == LowMask(high_bit)
        low_mask == LowMask(low_bit)
        mask == XorBits(high_mask, low_mask)
    IN AndBits(value, mask)

\* RegistryHive._mask
RegistryMask(value, high_bit, low_bit) ==
    LET high_mask == LowMask(high_bit + 1)
        low_mask == LowMask(low_bit)
        mask == XorBits(high_mask, low_mask)
    IN AndBits(value, mask)

\* 0x7fffffff
LowBits31 == 2147483647

\* Storage[i].Length as the hive may declare it.
StorageLengths == {0, 24, 4096, 2097152, 1073741824, LowBits31}

\* The bits a cell index of the model may have set: the ends of the four
\* fields, and bits 3 and 4 (0x18).
IndexBits == {0, 3, 4, 11, 12, 20, 21, 30, 31}
CellIndexes ==
    {[i \in BitPositions |-> IF i \in S THEN 1 ELSE 0] : S \in SUBSET IndexBits}

\* The storage maps of a hive: one block per entry, the blocks of layout 1
\* starting at 0x1000 for entry (0, 0, 0), those of layout 2 in reverse.
HiveLayouts == {1, 2}
BlockOffset(layout, volatile, dir_index, table_index) ==
    LET rank == volatile + 2 * (dir_index % 5) + 8 * (table_index % 7)
    IN IF layout = 1 THEN 4096 * (1 + rank) ELSE 4096 * (64 - rank)

\* RegistryHive.get_maxaddr, answering for the larger half
GetMaxaddrOfEither(h, volatile) ==
    IF h.maxaddr_volatile > h.maxaddr_non_volatile
    THEN h.maxaddr_volatile ELSE h.maxaddr_non_volatile

\* RegistryHive.get_maxaddr
GetMaxaddr(h, volatile) ==
    IF volatile # 0 THEN h.maxaddr_volatile ELSE h.maxaddr_non_volatile

\* RegistryHive._translate: the outcome and the storage-map entries read.
Translate(h, offset) ==
    LET volatile == BitsToInt(ShiftRightBits(RegistryMask(offset, 31, 31), 31))
    IN IF BitsToInt(AndBits(offset, IntToBits(LowBits31))) > GetMaxaddr(h, volatile)
       THEN [status |-> "RegistryInvalidIndex", reads |-> <<>>]
       ELSE LET dir_index == BitsToInt(ShiftRightBits(RegistryMask(offset, 30, 21), 21))
                table_index == BitsToInt(ShiftRightBits(RegistryMask(offset, 20, 12), 12))
                suboffset == BitsToInt(ShiftRightBits(RegistryMask(offset, 11, 0), 0))
            IN [status |-> "returned",
                reads |-> << <<volatile, dir_index, table_index>> >>,
                value |-> BlockOffset(h.layout, volatile, dir_index, table_index) + suboffset]

\* RegistryHive.__init__: the maximum addresses are the lengths of the two
\* storages, or 0x7fffffff when they cannot be read.
HiveNew ==
    /\ hive = NoHive
    /\ \E layout \in HiveLayouts :
          \/ \E non_volatile \in StorageLengths, volatile \in StorageLengths :
                hive' = [status |-> "constructed", layout |-> layout,
                         maxaddr_non_volatile |-> non_volatile,
                         maxaddr_volatile |-> volatile]
          \/ hive' = [status |-> "constructed", layout |-> layout,
                      maxaddr_non_volatile |-> LowBits31,
                      maxaddr_volatile |-> LowBits31]
    /\ UNCHANGED regOp
    /\ UNCHANGED <<objVars, tplVars, listVars, ptrVars, structVars, arrayVars, enumVars, bitVars, keyVars, vmVars, natVars, wrVars, derefVars, amVars, rtVars, hmVars, pdbVars, psVars, rcVars, thVars>>

\* hive._translate(offset)
TranslateCall ==
    /\ hive # NoHive
    /\ regOp = NoRegOp
    /\ \E offset \in CellIndexes :
          regOp' = [op |-> "translate", offset |-> offset, result |-> Translate(hive, offset)]
    /\ UNCHANGED hive
    /\ UNCHANGED <<objVars, tplVars, listVars, ptrVars, structVars, arrayVars, enumVars, bitVars, keyVars, vmVars, natVars, wrVars, derefVars, amVars, rtVars, hmVars, pdbVars, psVars, rcVars, thVars>>

\* The caller takes the outcome; the hive is ready for the next translation.
TranslateDone ==
    /\ regOp # NoRegOp
    /\ regOp' = NoRegOp
    /\ UNCHANGED hive
    /\ UNCHANGED <<objVars, tplVars, listVars, ptrVars, structVars, arrayVars, enumVars, bitVars, keyVars, vmVars, natVars, wrVars, derefVars, amVars, rtVars, hmVars, pdbVars, psVars, rcVars, thVars>>

InitRegistry == IdleReg /\ IdleObj /\ IdleTpl /\ IdleList /\ IdlePtr /\ IdleStruct /\ IdleArray /\ IdleEnum /\ IdleBit /\ IdleKey /\ IdleVm /\ IdleNat /\ IdleWr /\ IdleDeref /\ IdleAm /\ IdleRt /\ IdleHm /\ IdlePdb /\ IdlePs /\ IdleRc /\ IdleTh
NextRegistry == HiveNew \/ TranslateCall \/ TranslateDone
SpecRegistry == InitRegistry /\ [][NextRegistry]_vars

\* The number the bits low..high of a cell index spell.
RECURSIVE Field(_, _, _)
Field(offset, high, low) ==
    IF low > high THEN 0 ELSE offset[low] + 2 * Field(offset, high, low + 1)

\* C12: a translation that returns gives the block offset of the entry
\* Storage[bit 31].Map.Directory[bits 30..21].Table[bits 20..12] plus bits
\* 11..0, and every bit of the cell index is in exactly one of the fields.
C12_TranslateFields ==
    (regOp.op = "translate" /\ regOp.result.status = "returned") =>
        LET o == regOp.offset
            v == Field(o, 31, 31)
            d == Field(o, 30, 21)
            t == Field(o, 20, 12)
            s == Field(o, 11, 0)
        IN /\ regOp.result.value = BlockOffset(hive.layout, v, d, t) + s
           /\ regOp.result.reads = << <<v, d, t>> >>
           /\ \A i \in BitPositions :
                  o[i] = (IF i = 31 THEN v
                          ELSE IF i >= 21 THEN (d \div Pow2(i - 21)) % 2
                          ELSE IF i >= 12 THEN (t \div Pow2(i - 12)) % 2
                          ELSE (s \div Pow2(i)) % 2)

\* C12's case: the block at 0x1000 for directory 0 and table 0, with the
\* suboffset 0x18, gives 0x1018.
C12_Witness ==
    /\ regOp.op = "translate"
    /\ regOp.offset = IntToBits(24)
    /\ hive.layout = 1
    /\ regOp.result.status = "returned"
    /\ regOp.result.value = 4120

\* The low 31 bits of a cell index, as a number.
Low31(offset) == Field(offset, 30, 0)

\* C13: a translation fails with RegistryInvalidIndex exactly when the low
\* 31 bits of the cell index exceed the maximum address of the half bit 31
\* selects, and then no storage-map entry has been read.
C13_InvalidIndex ==
    regOp.op = "translate" =>
        LET o == regOp.offset
            maxaddr == IF o[31] = 1 THEN hive.maxaddr_volatile
                       ELSE hive.maxaddr_non_volatile
        IN /\ (regOp.result.status = "RegistryInvalidIndex") <=> (Low31(o) > maxaddr)
           /\ regOp.result.status = "RegistryInvalidIndex" => regOp.result.reads = <<>>
           /\ regOp.result.status \in {"RegistryInvalidIndex", "returned"}

\* C13's case: a cell index in range for the other half and out of range
\* for the half its bit 31 selects.
C13_Witness ==
    /\ regOp.op = "translate"
    /\ regOp.offset[31] = 1
    /\ Low31(regOp.offset) > hive.maxaddr_volatile
    /\ Low31(regOp.offset) <= hive.maxaddr_non_volatile
    /\ regOp.result.status = "RegistryInvalidIndex"

----------------------------------------------------------------------------
(* SpecHiveKeys: RegistryHive.get_key over the key nodes of a hive *)

\* Strings are sequences of characters.
Backslash == "\\"
KeyChars == {"a", "A", "b", Backslash}
KeyPaths == UNION {[1..n -> KeyChars] : n \in 0..MaxKeyLen}

\* str.lower
LowerChar(c) == IF c = "A" THEN "a" ELSE IF c = "B" THEN "b" ELSE c
Lower(s) == [i \in 1..Len(s) |-> LowerChar(s[i])]

\* str.split(sep): the pieces between the separators, at least one piece.
RECURSIVE Split(_, _)
Split(s, sep) ==
    IF \A i \in 1..Len(s) : s[i] # sep THEN <<s>>
    ELSE LET first == CHOOSE i \in 1..Len(s) :
                          s[i] = sep /\ \A j \in 1..(i - 1) : s[j] # sep
         IN <<SubSeq(s, 1, first - 1)>> \o Split(SubSeq(s, first + 1, Len(s)), sep)

\* sep.join(parts)
RECURSIVE Join(_, _)
Join(parts, sep) ==
    IF parts = <<>> THEN <<>>
    ELSE IF Len(parts) = 1 THEN parts[1]
    ELSE parts[1] \o <<sep>> \o Join(Tail(parts), sep)

\* key[:-1] if key.endswith("\\")
StripTrailing(key) ==
    IF Len(key) > 0 /\ key[Len(key)] = Backslash THEN SubSeq(key, 1, Len(key) - 1) ELSE key

\* The key nodes of a hive: node 1 is the root; names[n] is get_name() of
\* node n and subkeys[n] the nodes get_subkeys() yields, in order.
KeyTrees ==
    {[status |-> "loaded",
      names |-> << <<>>, <<"a">>, <<"B">>, <<"A", "b">> >>,
      subkeys |-> << <<2, 3>>, <<4>>, <<>>, <<>> >>],
     [status |-> "loaded",
      names |-> << <<>>, <<"A">>, <<"a">>, <<"b">>, <<"a">> >>,
      subkeys |-> << <<2, 3>>, <<5>>, <<4>>, <<>>, <<>> >>]}
RootNode == 1

\* The comparison of the loop with the lower() calls left out
MatchesExactly(name, segment) == name = segment

\* subkey.get_name().lower() == key_array[0].lower()
Matches(name, segment) == Lower(name) = Lower(segment)

\* The for loop over the subkeys: the first subkey that matches, or 0 when the
\* loop ends without a break.
RECURSIVE FirstMatch(_, _, _)
FirstMatch(tree, subkeys, segment) ==
    IF subkeys = <<>> THEN 0
    ELSE IF Matches(tree.names[Head(subkeys)], segment) THEN Head(subkeys)
    ELSE FirstMatch(tree, Tail(subkeys), segment)

\* The while loop of get_key, to its exit.
RECURSIVE Descend(_, _, _, _)
Descend(tree, node_key, key_array, found_key) ==
    IF key_array = <<>> \/ node_key = <<>>
    THEN [node_key |-> node_key, key_array |-> key_array, found_key |-> found_key]
    ELSE LET subkey == FirstMatch(tree, tree.subkeys[node_key[Len(node_key)]], key_array[1])
         IN IF subkey # 0
            THEN Descend(tree, Append(node_key, subkey), Tail(key_array),
                         Append(found_key, key_array[1]))
            ELSE Descend(tree, <<>>, key_array, found_key)

\* RegistryHive.get_key
GetKey(tree, key, return_list) ==
    LET key_array == Split(StripTrailing(key), Backslash)
        end == Descend(tree, <<RootNode>>, key_array, <<>>)
    IN IF end.node_key = <<>>
       THEN [status |-> "KeyError",
             args |-> <<end.key_array[1], Join(end.found_key, Backslash)>>]
       ELSE IF return_list
       THEN [status |-> "returned", value |-> end.node_key]
       ELSE [status |-> "returned", value |-> end.node_key[Len(end.node_key)]]

\* The hive whose keys are walked.
LoadHive ==
    /\ keyTree = NoTree
    /\ keyTree' \in KeyTrees
    /\ UNCHANGED keyOp
    /\ UNCHANGED <<objVars, tplVars, listVars, ptrVars, structVars, arrayVars, enumVars, bitVars, regVars, vmVars, natVars, wrVars, derefVars, amVars, rtVars, hmVars, pdbVars, psVars, rcVars, thVars>>

\* hive.get_key(key, return_list)
GetKeyCall ==
    /\ keyTree # NoTree
    /\ keyOp = NoKeyOp
    /\ \E key \in KeyPaths, return_list \in BOOLEAN :
          keyOp' = [op |-> "get_key", key |-> key, return_list |-> return_list,
                    result |-> GetKey(keyTree, key, return_list)]
    /\ UNCHANGED keyTree
    /\ UNCHANGED <<objVars, tplVars, listVars, ptrVars, structVars, arrayVars, enumVars, bitVars, regVars, vmVars, natVars, wrVars, derefVars, amVars, rtVars, hmVars, pdbVars, psVars, rcVars, thVars>>

\* The caller takes the outcome.
GetKeyDone ==
    /\ keyOp # NoKeyOp
    /\ keyOp' = NoKeyOp
    /\ UNCHANGED keyTree
    /\ UNCHANGED <<objVars, tplVars, listVars, ptrVars, structVars, arrayVars, enumVars, bitVars, regVars, vmVars, natVars, wrVars, derefVars, amVars, rtVars, hmVars, pdbVars, psVars, rcVars, thVars>>

InitHiveKeys == IdleKey /\ IdleObj /\ IdleTpl /\ IdleList /\ IdlePtr /\ IdleStruct /\ IdleArray /\ IdleEnum /\ IdleBit /\ IdleReg /\ IdleVm /\ IdleNat /\ IdleWr /\ IdleDeref /\ IdleAm /\ IdleRt /\ IdleHm /\ IdlePdb /\ IdlePs /\ IdleRc /\ IdleTh
NextHiveKeys == LoadHive \/ GetKeyCall \/ GetKeyDone
SpecHiveKeys == InitHiveKeys /\ [][NextHiveKeys]_vars

\* Two names that differ at most in the case of their letters.
SameLetter(c, d) == c = d \/ {c, d} = {"a", "A"} \/ {c, d} = {"b", "B"}
SameIgnoringCase(s, t) ==
    Len(s) = Len(t) /\ \A i \in 1..Len(s) : SameLetter(s[i], t[i])

\* The segments of a key path: the pieces of the path, less one trailing
\* backslash, that hold no backslash and give the path back when joined.
IsSegmentsOf(segs, key) ==
    LET path == IF Len(key) > 0 /\ key[Len(key)] = Backslash
                THEN SubSeq(key, 1, Len(key) - 1) ELSE key
    IN /\ Len(segs) >= 1
       /\ \A i \in 1..Len(segs) : \A j \in 1..Len(segs[i]) : segs[i][j] # Backslash
       /\ Join(segs, Backslash) = path

\* A path of nodes from the root that takes one step per segment, each to a
\* subkey of the node before whose name is the segment, whatever the case.
IsDescent(tree, nodes, segs) ==
    /\ Len(nodes) = Len(segs) + 1
    /\ nodes[1] = RootNode
    /\ \A i \in 1..Len(segs) :
           /\ \E k \in 1..Len(tree.subkeys[nodes[i]]) : tree.subkeys[nodes[i]][k] = nodes[i + 1]
           /\ SameIgnoringCase(tree.names[nodes[i + 1]], segs[i])

\* The sequences of n nodes of a hive.
NodePaths(tree, n) == [1..n -> 1..Len(tree.names)]

\* C14: get_key walks from the root one segment of the path at a time, to a
\* subkey of that name whatever the case; it returns the node of the last
\* segment, or the nodes from the root to it; where a segment has no subkey
\* of its name, it raises KeyError with that segment and the joined segments
\* resolved before it.
C14_GetKeyDescends ==
    keyOp.op = "get_key" =>
        LET r == keyOp.result
            segs == Split(StripTrailing(keyOp.key), Backslash)
        IN /\ IsSegmentsOf(segs, keyOp.key)
           /\ r.status = "returned" =>
                  \E nodes \in NodePaths(keyTree, Len(segs) + 1) :
                      /\ IsDescent(keyTree, nodes, segs)
                      /\ r.value = IF keyOp.return_list THEN nodes ELSE nodes[Len(nodes)]
           /\ r.status = "KeyError" =>
                  \E k \in 0..(Len(segs) - 1) :
                      /\ r.args = <<segs[k + 1], Join(SubSeq(segs, 1, k), Backslash)>>
                      /\ \E nodes \in NodePaths(keyTree, k + 1) :
                             /\ IsDescent(keyTree, nodes, SubSeq(segs, 1, k))
                             /\ \A j \in 1..Len(keyTree.subkeys[nodes[k + 1]]) :
                                    ~SameIgnoringCase(
                                        keyTree.names[keyTree.subkeys[nodes[k + 1]][j]],
                                        segs[k + 1])

\* C14's case: a path of two segments in another case than the names of the
\* keys, resolved to the list of three nodes.
C14_Witness ==
    /\ keyOp.op = "get_key"
    /\ keyOp.key = <<"A", Backslash, "a", "b">>
    /\ keyOp.return_list
    /\ keyOp.result.status = "returned"
    /\ Len(keyOp.result.value) = 3

----------------------------------------------------------------------------
(* SpecVmware: VmwareStacker.stack and the segments VmwareLayer loads *)

\* self._page_size
PageSize == 4096

\* b"\xD2\xBE\xD2\xBE"
VmwareMagic == <<210, 190, 210, 190>>
Magics == {VmwareMagic, <<210, 190, 210, 191>>, <<190, 210, 190, 210>>}

\* The page descriptors of a region: <<regionPPN, regionPageNum, regionSize>>.
RegionDescriptors == {0, 2} \X {0, 1} \X {1, 4}
RegionLists == UNION {[1..n -> RegionDescriptors] : n \in 0..MaxRegions}

\* The tag records of the regions from the r-th on (r counted from 0).
RECURSIVE RegionTags(_, _)
RegionTags(regions, r) ==
    IF r >= Len(regions) THEN <<>>
    ELSE <<[name |-> "regionPPN", indicies |-> <<r>>, data |-> regions[r + 1][1]],
           [name |-> "regionPageNum", indicies |-> <<r>>, data |-> regions[r + 1][2]],
           [name |-> "regionSize", indicies |-> <<r>>, data |-> regions[r + 1][3]]>>
         \o RegionTags(regions, r + 1)

\* The groups of a metadata file, each a name and the tag records at its
\* tag location.
GroupLayouts == {<<"memory">>, <<"cpu", "memory">>, <<"cpu">>}
MetaGroups(layout, regionsCount, regions) ==
    [g \in 1..Len(layout) |->
        <<layout[g],
          IF layout[g] = "memory"
          THEN <<[name |-> "regionsCount", indicies |-> <<>>, data |-> regionsCount]>>
               \o RegionTags(regions, 0)
          ELSE <<>> >>]

\* magic not in [b"\xD2\xBE\xD2\xBE"]: a check that accepts every magic
AnyMagic(magic) == FALSE

\* magic not in [b"\xD2\xBE\xD2\xBE"]
WrongMagic(magic) == magic \notin {VmwareMagic}

\* The loop over the groups: groups[name] = tag_location
RECURSIVE ReadGroups(_, _)
ReadGroups(records, groups) ==
    IF records = <<>> THEN groups
    ELSE ReadGroups(Tail(records),
                    Updated(groups, [n \in {Head(records)[1]} |-> Head(records)[2]]))

\* The loop over the tag records: tags[(name, tuple(indicies))] = (flags, data)
RECURSIVE ReadTags(_, _)
ReadTags(records, tags) ==
    IF records = <<>> THEN tags
    ELSE LET t == Head(records)
         IN ReadTags(Tail(records),
                     Updated(tags, [k \in {<<t.name, t.indicies>>} |-> t.data]))

\* The segment of a region, offset and mapped offset exchanged
SegmentOfSwapped(tags, region) ==
    <<tags[<<"regionPageNum", <<region>> >>] * PageSize,
      tags[<<"regionPPN", <<region>> >>] * PageSize,
      tags[<<"regionSize", <<region>> >>] * PageSize>>

\* (offset, mapped_offset, length) of a region
SegmentOf(tags, region) ==
    <<tags[<<"regionPPN", <<region>> >>] * PageSize,
      tags[<<"regionPageNum", <<region>> >>] * PageSize,
      tags[<<"regionSize", <<region>> >>] * PageSize>>

\* The loop over the regions: self._segments.append(...), or KeyError at the
\* first region a tag is missing for.
RECURSIVE AppendRegions(_, _, _, _)
AppendRegions(tags, region, count, segments) ==
    IF region >= count THEN [status |-> "loaded", segments |-> segments]
    ELSE IF \E name \in {"regionPPN", "regionPageNum", "regionSize"} :
               <<name, <<region>> >> \notin DOMAIN tags
    THEN [status |-> "KeyError", segments |-> segments]
    ELSE AppendRegions(tags, region + 1, count, Append(segments, SegmentOf(tags, region)))

\* VmwareLayer._read_header over the metadata: how it ends, and the segments
\* appended by then.
ReadHeader(magic, group_records) ==
    IF WrongMagic(magic) THEN [status |-> "ValueError", segments |-> <<>>]
    ELSE LET groups == ReadGroups(group_records, [n \in {} |-> 0])
         IN IF "memory" \notin DOMAIN groups
            THEN [status |-> "KeyError", segments |-> <<>>]
            ELSE LET tags == ReadTags(groups["memory"], [k \in {} |-> 0])
                 IN IF <<"regionsCount", <<>> >> \notin DOMAIN tags
                    THEN [status |-> "KeyError", segments |-> <<>>]
                    ELSE IF tags[<<"regionsCount", <<>> >>] = 0
                    THEN [status |-> "ValueError", segments |-> <<>>]
                    ELSE AppendRegions(tags, 0, tags[<<"regionsCount", <<>> >>], <<>>)

\* What stack() finds: the layer is no FileLayer, its location is no .vmem,
\* or which of the .vmss and .vmsn files exist beside it.
Surroundings == {"not a FileLayer", "not .vmem", "vmss", "vmsn", "neither"}

\* The context before stacking: the layer stack() is asked about.
OpenImage ==
    /\ vmLayers = {}
    /\ vmLayers' = {"FileLayer"}
    /\ vmTables' \in {{}, {"vmware"}}
    /\ UNCHANGED <<vmLayer, vmOp>>
    /\ UNCHANGED <<objVars, tplVars, listVars, ptrVars, structVars, arrayVars, enumVars, bitVars, regVars, keyVars, natVars, wrVars, derefVars, amVars, rtVars, hmVars, pdbVars, psVars, rcVars, thVars>>

\* VmwareStacker.stack(context, layer_name), the construction of the
\* VmwareLayer included.
VmwareStack ==
    /\ vmLayers = {"FileLayer"}
    /\ vmOp = NoVmOp
    /\ \E found \in Surroundings :
          \/ /\ found \in {"not a FileLayer", "not .vmem", "neither"}
             /\ vmOp' = [op |-> "stack", found |-> found, status |-> "returned None"]
             /\ UNCHANGED <<vmLayers, vmTables, vmLayer>>
          \* the .vmsn exists: the location configured is the .vmss, which
          \* does not; the FileLayer fails when made or when first read
          \/ /\ found = "vmsn"
             /\ \/ /\ vmOp' = [op |-> "stack", found |-> found, status |-> "error"]
                   /\ UNCHANGED <<vmLayers, vmTables, vmLayer>>
                \/ /\ vmOp' = [op |-> "stack", found |-> found, status |-> "error"]
                   /\ vmLayers' = vmLayers \cup {"VmwareMetaLayer"}
                   /\ vmTables' = vmTables \cup {"vmware"}
                   /\ vmLayer' = [status |-> "failed", name |-> "VmwareLayer",
                                  segments |-> <<>>]
          \/ /\ found = "vmss"
             /\ \E magic \in Magics, layout \in GroupLayouts,
                   regionsCount \in 0..MaxRegions, regions \in RegionLists :
                   LET header == ReadHeader(magic, MetaGroups(layout, regionsCount, regions))
                   IN /\ vmLayer' = [status |-> IF header.status = "loaded"
                                                THEN "constructed" ELSE "failed",
                                     name |-> "VmwareLayer",
                                     segments |-> header.segments]
                      /\ vmOp' = [op |-> "stack", found |-> found,
                                  magic |-> magic, layout |-> layout,
                                  regionsCount |-> regionsCount, regions |-> regions,
                                  status |-> IF header.status = "loaded"
                                             THEN "returned layer" ELSE "error",
                                  error |-> header.status]
             /\ vmLayers' = vmLayers \cup {"VmwareMetaLayer"}
             /\ vmTables' = vmTables \cup {"vmware"}
    /\ UNCHANGED <<objVars, tplVars, listVars, ptrVars, structVars, arrayVars, enumVars, bitVars, regVars, keyVars, natVars, wrVars, derefVars, amVars, rtVars, hmVars, pdbVars, psVars, rcVars, thVars>>

\* The caller of stack() adds the layer stack() returned to the context.
AddLayer ==
    /\ vmOp.op = "stack"
    /\ vmOp.status = "returned layer"
    /\ vmLayer.name \notin vmLayers
    /\ vmLayers' = vmLayers \cup {vmLayer.name}
    /\ UNCHANGED <<vmTables, vmLayer, vmOp>>
    /\ UNCHANGED <<objVars, tplVars, listVars, ptrVars, structVars, arrayVars, enumVars, bitVars, regVars, keyVars, natVars, wrVars, derefVars, amVars, rtVars, hmVars, pdbVars, psVars, rcVars, thVars>>

InitVmware == IdleVm /\ IdleObj /\ IdleTpl /\ IdleList /\ IdlePtr /\ IdleStruct /\ IdleArray /\ IdleEnum /\ IdleBit /\ IdleReg /\ IdleKey /\ IdleNat /\ IdleWr /\ IdleDeref /\ IdleAm /\ IdleRt /\ IdleHm /\ IdlePdb /\ IdlePs /\ IdleRc /\ IdleTh
NextVmware == OpenImage \/ VmwareStack \/ AddLayer
SpecVmware == InitVmware /\ [][NextVmware]_vars

\* C15: a VmwareLayer that was constructed holds exactly regionsCount
\* segments, the r-th being the page descriptors of region r times 0x1000.
C15_SegmentsOfRegions ==
    vmLayer.status = "constructed" =>
        /\ Len(vmLayer.segments) = vmOp.regionsCount
        /\ \A r \in 1..vmOp.regionsCount :
               vmLayer.segments[r] = <<vmOp.regions[r][1] * 4096,
                                       vmOp.regions[r][2] * 4096,
                                       vmOp.regions[r][3] * 4096>>

\* C15's case: regionsCount 1, regionPPN 2, regionPageNum 0 and regionSize 4
\* give the one segment (0x2000, 0, 0x4000).
C15_Witness ==
    /\ vmLayer.status = "constructed"
    /\ vmOp.regionsCount = 1
    /\ vmOp.regions = << <<2, 0, 4>> >>
    /\ vmLayer.segments = << <<8192, 0, 16384>> >>

\* C16: with a magic other than D2 BE D2 BE, or with regionsCount 0, the
\* construction of the VmwareLayer fails, no segment has been appended, and
\* the VmwareLayer is not among the layers of the context, then or later.
C16_FailedLayerNotRegistered ==
    (/\ vmOp.op = "stack"
     /\ vmOp.found = "vmss"
     /\ (vmOp.magic # <<210, 190, 210, 190>> \/ vmOp.regionsCount = 0))
        => /\ vmOp.status = "error"
           /\ vmLayer.status = "failed"
           /\ vmLayer.segments = <<>>
           /\ vmLayer.name \notin vmLayers

\* C16's case: the right magic and a memory group whose regionsCount is 0,
\* with regions described after it.
C16_Witness ==
    /\ vmOp.op = "stack"
    /\ vmOp.found = "vmss"
    /\ vmOp.magic = VmwareMagic
    /\ vmOp.layout = <<"cpu", "memory">>
    /\ vmOp.regionsCount = 0
    /\ Len(vmOp.regions) = 2
    /\ vmOp.error = "ValueError"

\* C17: the segments of a constructed VmwareLayer are in increasing order
\* of offset.
C17_SegmentsSorted ==
    vmLayer.status = "constructed" =>
        \A i, j \in 1..Len(vmLayer.segments) :
            i < j => vmLayer.segments[i][1] <= vmLayer.segments[j][1]

\* C29: a stack() that returns no layer (it returns None, or the
\* construction of the VmwareLayer raises) leaves the layers and the symbol
\* tables of the context as they were before the call.
C29_FailedStackLeavesContext ==
    [][(vmOp.op = "none" /\ vmOp'.op = "stack" /\ vmOp'.status # "returned layer")
          => (vmLayers' = vmLayers /\ vmTables' = vmTables)]_vars

----------------------------------------------------------------------------
(* SpecNative: the NativeTables of native.py and NativeTable.get_type *)

\* struct.calcsize of the formats of std_ctypes and of the pointers
FormatSize(format) ==
    CASE format \in {"<b", "<B", "<c"} -> 1
      [] format \in {"<h", "<H", ">H"} -> 2
      [] format \in {"<i", "<I"} -> 4
      [] format \in {"<q", "<Q", "<d"} -> 8

\* The keywords every NativeTable adds to its types.
Keywords == {"enum", "array", "bitfield", "void", "pointer", "string", "bytes", "function"}

\* Type names are sequences of pieces, the separator BANG a piece of its own.
BaseNames == Keywords \cup {"int", "unsigned int", "nosuch"}
Prefixes == {<<>>, <<"vmware", BANG>>, <<"a", BANG, "b", BANG>>}
TypeNames == {p \o <<n>> : p \in Prefixes, n \in BaseNames}

\* NativeTable.get_type_class
GetTypeClass(dictionary, name) ==
    IF name \in DOMAIN dictionary THEN dictionary[name][1] ELSE "Integer"

\* objects.templates.ObjectTemplate(obj, type_name = ..., **additional)
ObjectTemplate(object_class, type_name, additional) ==
    TemplateInit(type_name, Updated([object_class |-> object_class], additional))

\* NativeTable.get_type: the template, or the error raised.
RECURSIVE GetType(_, _)
GetType(dictionary, full_name) ==
    LET name_split == Split(full_name, BANG)
    IN IF Contains(full_name, BANG) /\ Len(name_split) > 2
       THEN [status |-> "ValueError"]
       ELSE
       LET prefix == IF Contains(full_name, BANG) THEN name_split[1] \o <<BANG>> ELSE <<>>
           type_name == IF Contains(full_name, BANG) THEN name_split[2] ELSE full_name
           void == GetType(dictionary, <<"void">>)
           int == GetType(dictionary, <<"int">>)
       IN IF type_name = <<"void">> \/ type_name = <<"function">>
          THEN [status |-> "returned",
                template |-> ObjectTemplate("Void", prefix \o type_name, EmptyMap)]
          ELSE IF type_name = <<"array">>
          THEN [status |-> "returned",
                template |-> ObjectTemplate("Array", prefix \o type_name,
                                 [count |-> 0, subtype |-> void.template])]
          ELSE IF type_name = <<"enum">>
          THEN IF int.status # "returned" THEN int
               ELSE [status |-> "returned",
                     template |-> ObjectTemplate("Enumeration", prefix \o type_name,
                                      [base_type |-> int.template, choices |-> EmptyMap])]
          ELSE IF type_name = <<"bitfield">>
          THEN IF int.status # "returned" THEN int
               ELSE [status |-> "returned",
                     template |-> ObjectTemplate("BitField", prefix \o type_name,
                                      [start_bit |-> 0, end_bit |-> 0,
                                       base_type |-> int.template])]
          ELSE IF type_name = <<"string">>
          THEN [status |-> "returned",
                template |-> ObjectTemplate("String", prefix \o type_name, [max_length |-> 0])]
          ELSE IF type_name = <<"bytes">>
          THEN [status |-> "returned",
                template |-> ObjectTemplate("Bytes", prefix \o type_name, [length |-> 0])]
          ELSE IF Len(type_name) # 1 \/ type_name[1] \notin DOMAIN dictionary
          THEN [status |-> "KeyError"]
          ELSE [status |-> "returned",
                template |-> ObjectTemplate(GetTypeClass(dictionary, type_name[1]),
                                 prefix \o type_name,
                                 Updated([struct_format |-> dictionary[type_name[1]][2]],
                                         IF type_name = <<"pointer">>
                                         THEN [subtype |-> void.template]
                                         ELSE EmptyMap))]

\* std_ctypes
StdCtypes ==
    [n \in {"int", "long", "unsigned long", "unsigned int", "char", "byte",
             "unsigned char", "unsigned short int", "unsigned short",
             "unsigned be short", "short", "long long", "unsigned long long",
             "float", "double", "wchar"} |->
        CASE n \in {"int", "long"} -> <<"Integer", "<i">>
          [] n \in {"unsigned long", "unsigned int"} -> <<"Integer", "<I">>
          [] n = "char" -> <<"Integer", "<b">>
          [] n = "byte" -> <<"Bytes", "<c">>
          [] n = "unsigned char" -> <<"Integer", "<B">>
          [] n \in {"unsigned short int", "unsigned short", "wchar"} -> <<"Integer", "<H">>
          [] n = "unsigned be short" -> <<"Integer", ">H">>
          [] n = "short" -> <<"Integer", "<h">>
          [] n = "long long" -> <<"Integer", "<q">>
          [] n = "unsigned long long" -> <<"Integer", "<Q">>
          [] n \in {"float", "double"} -> <<"Float", "<d">>]

\* The identities of the two module-level dictionaries in natDicts.
StdCtypesId == 1
NativeTypesId == 2

\* The table keeps the dictionary it was given, with no copy
ShareDict(dicts, id) == [dicts |-> dicts, id |-> id]

\* copy.deepcopy(native_dictionary): a new dictionary with the same items
CopyDict(dicts, id) == [dicts |-> Append(dicts, dicts[id]), id |-> Len(dicts) + 1]

\* NativeTable.__init__: the table, and the dictionaries in memory after it.
NativeTableInit(dicts, name, native_dictionary) ==
    LET copied == CopyDict(dicts, native_dictionary)
        own == copied.dicts[copied.id]
    IN [dicts |-> copied.dicts,
        table |-> [name |-> name,
                   native_dictionary |-> copied.id,
                   overrides |-> [t \in DOMAIN own |-> own[t][1]],
                   types |-> DOMAIN own \cup Keywords,
                   built |-> own]]

\* std_ctypes = {...}
DefineStdCtypes ==
    /\ natPc = "std_ctypes"
    /\ natDicts' = <<StdCtypes>>
    /\ natPc' = "native_types"
    /\ UNCHANGED <<natTables, natOp>>
    /\ UNCHANGED <<objVars, tplVars, listVars, ptrVars, structVars, arrayVars, enumVars, bitVars, regVars, keyVars, vmVars, wrVars, derefVars, amVars, rtVars, hmVars, pdbVars, psVars, rcVars, thVars>>

\* native_types = std_ctypes.copy()
CopyStdCtypes ==
    /\ natPc = "native_types"
    /\ natDicts' = Append(natDicts, natDicts[StdCtypesId])
    /\ natPc' = "pointer 32"
    /\ UNCHANGED <<natTables, natOp>>
    /\ UNCHANGED <<objVars, tplVars, listVars, ptrVars, structVars, arrayVars, enumVars, bitVars, regVars, keyVars, vmVars, wrVars, derefVars, amVars, rtVars, hmVars, pdbVars, psVars, rcVars, thVars>>

\* native_types['pointer'] = (objects.Pointer, "<I")
SetPointer32 ==
    /\ natPc = "pointer 32"
    /\ natDicts' = [natDicts EXCEPT ![NativeTypesId] =
                        Updated(@, [k \in {"pointer"} |-> <<"Pointer", "<I">>])]
    /\ natPc' = "x86NativeTable"
    /\ UNCHANGED <<natTables, natOp>>
    /\ UNCHANGED <<objVars, tplVars, listVars, ptrVars, structVars, arrayVars, enumVars, bitVars, regVars, keyVars, vmVars, wrVars, derefVars, amVars, rtVars, hmVars, pdbVars, psVars, rcVars, thVars>>

\* x86NativeTable = NativeTable("native", native_types)
BuildX86 ==
    /\ natPc = "x86NativeTable"
    /\ LET new == NativeTableInit(natDicts, "native", NativeTypesId)
       IN /\ natDicts' = new.dicts
          /\ natTables' = Updated(natTables, [k \in {"x86NativeTable"} |-> new.table])
    /\ natPc' = "pointer 64"
    /\ UNCHANGED natOp
    /\ UNCHANGED <<objVars, tplVars, listVars, ptrVars, structVars, arrayVars, enumVars, bitVars, regVars, keyVars, vmVars, wrVars, derefVars, amVars, rtVars, hmVars, pdbVars, psVars, rcVars, thVars>>

\* native_types['pointer'] = (objects.Pointer, '<Q')
SetPointer64 ==
    /\ natPc = "pointer 64"
    /\ natDicts' = [natDicts EXCEPT ![NativeTypesId] =
                        Updated(@, [k \in {"pointer"} |-> <<"Pointer", "<Q">>])]
    /\ natPc' = "x64NativeTable"
    /\ UNCHANGED <<natTables, natOp>>
    /\ UNCHANGED <<objVars, tplVars, listVars, ptrVars, structVars, arrayVars, enumVars, bitVars, regVars, keyVars, vmVars, wrVars, derefVars, amVars, rtVars, hmVars, pdbVars, psVars, rcVars, thVars>>

\* x64NativeTable = NativeTable("native", native_types)
BuildX64 ==
    /\ natPc = "x64NativeTable"
    /\ LET new == NativeTableInit(natDicts, "native", NativeTypesId)
       IN /\ natDicts' = new.dicts
          /\ natTables' = Updated(natTables, [k \in {"x64NativeTable"} |-> new.table])
    /\ natPc' = "loaded"
    /\ UNCHANGED natOp
    /\ UNCHANGED <<objVars, tplVars, listVars, ptrVars, structVars, arrayVars, enumVars, bitVars, regVars, keyVars, vmVars, wrVars, derefVars, amVars, rtVars, hmVars, pdbVars, psVars, rcVars, thVars>>

\* native.NativeTable("vmware", native.std_ctypes), as VmwareLayer builds it
BuildVmwareTable ==
    /\ natPc = "loaded"
    /\ "vmware" \notin DOMAIN natTables
    /\ LET new == NativeTableInit(natDicts, "vmware", StdCtypesId)
       IN /\ natDicts' = new.dicts
          /\ natTables' = Updated(natTables, [k \in {"vmware"} |-> new.table])
    /\ UNCHANGED <<natPc, natOp>>
    /\ UNCHANGED <<objVars, tplVars, listVars, ptrVars, structVars, arrayVars, enumVars, bitVars, regVars, keyVars, vmVars, wrVars, derefVars, amVars, rtVars, hmVars, pdbVars, psVars, rcVars, thVars>>

\* A later assignment to an item of the shared native_types.
MutateNativeTypes ==
    /\ natPc = "loaded"
    /\ natOp = NoNatOp
    /\ \E k \in {"pointer", "int"}, v \in {<<"Pointer", "<I">>, <<"Integer", "<H">>} :
          natDicts' = [natDicts EXCEPT ![NativeTypesId] = Updated(@, [x \in {k} |-> v])]
    /\ UNCHANGED <<natTables, natPc, natOp>>
    /\ UNCHANGED <<objVars, tplVars, listVars, ptrVars, structVars, arrayVars, enumVars, bitVars, regVars, keyVars, vmVars, wrVars, derefVars, amVars, rtVars, hmVars, pdbVars, psVars, rcVars, thVars>>

\* table.get_type(type_name)
GetTypeCall ==
    /\ natOp = NoNatOp
    /\ \E t \in DOMAIN natTables, type_name \in TypeNames :
          natOp' = [op |-> "get_type", table |-> t, type_name |-> type_name,
                    result |-> GetType(natDicts[natTables[t].native_dictionary], type_name)]
    /\ UNCHANGED <<natDicts, natTables, natPc>>
    /\ UNCHANGED <<objVars, tplVars, listVars, ptrVars, structVars, arrayVars, enumVars, bitVars, regVars, keyVars, vmVars, wrVars, derefVars, amVars, rtVars, hmVars, pdbVars, psVars, rcVars, thVars>>

\* The caller takes the outcome.
GetTypeDone ==
    /\ natOp # NoNatOp
    /\ natOp' = NoNatOp
    /\ UNCHANGED <<natDicts, natTables, natPc>>
    /\ UNCHANGED <<objVars, tplVars, listVars, ptrVars, structVars, arrayVars, enumVars, bitVars, regVars, keyVars, vmVars, wrVars, derefVars, amVars, rtVars, hmVars, pdbVars, psVars, rcVars, thVars>>

InitNative == IdleNat /\ IdleObj /\ IdleTpl /\ IdleList /\ IdlePtr /\ IdleStruct /\ IdleArray /\ IdleEnum /\ IdleBit /\ IdleReg /\ IdleKey /\ IdleVm /\ IdleWr /\ IdleDeref /\ IdleAm /\ IdleRt /\ IdleHm /\ IdlePdb /\ IdlePs /\ IdleRc /\ IdleTh
NextNative ==
    \/ DefineStdCtypes \/ CopyStdCtypes \/ SetPointer32 \/ BuildX86 \/ SetPointer64 \/ BuildX64
    \/ BuildVmwareTable \/ MutateNativeTypes \/ GetTypeCall \/ GetTypeDone
SpecNative == InitNative /\ [][NextNative]_vars

\* The object class of each keyword, and its defaults.
KeywordClass(keyword) ==
    CASE keyword = "void" -> "Void"
      [] keyword = "array" -> "Array"
      [] keyword = "enum" -> "Enumeration"
      [] keyword = "bitfield" -> "BitField"
      [] keyword = "pointer" -> "Pointer"
      [] keyword = "string" -> "String"
      [] keyword = "bytes" -> "Bytes"
      [] keyword = "function" -> "Function"

HasDefaults(keyword, template) ==
    CASE keyword = "array" -> ChainGet(template, "count") = 0
      [] keyword = "enum" -> ChainGet(template, "choices") = EmptyMap
      [] keyword = "bitfield" ->
             ChainGet(template, "start_bit") = 0 /\ ChainGet(template, "end_bit") = 0
      [] keyword = "string" -> ChainGet(template, "max_length") = 0
      [] keyword = "bytes" -> ChainGet(template, "length") = 0
      [] OTHER -> TRUE

\* C18: on every NativeTable, get_type of a keyword, with a table prefix or
\* without, returns a template of the keyword's object class with the
\* zero-value defaults and the type name it was asked for.
C18_KeywordsResolve ==
    (/\ natOp.op = "get_type"
     /\ natOp.type_name[Len(natOp.type_name)] \in Keywords
     /\ Len(natOp.type_name) <= 3)
        => LET keyword == natOp.type_name[Len(natOp.type_name)]
           IN /\ natOp.result.status = "returned"
              /\ ChainGet(natOp.result.template, "object_class") = KeywordClass(keyword)
              /\ HasDefaults(keyword, natOp.result.template)
              /\ ChainGet(natOp.result.template, "type_name") = natOp.type_name

\* The size of the template a table resolves 'pointer' to.
PointerSize(t) ==
    FormatSize(ChainGet(GetType(natDicts[natTables[t].native_dictionary],
                                <<"pointer">>).template,
                        "struct_format"))

\* C19: x86NativeTable resolves 'pointer' to 4 bytes and x64NativeTable to 8,
\* and the dictionary of every table stays as it was when the table was
\* built, whatever is assigned to native_types and whichever table is built
\* after it.
C19_TablesKeepTheirOwn ==
    /\ "x86NativeTable" \in DOMAIN natTables => PointerSize("x86NativeTable") = 4
    /\ "x64NativeTable" \in DOMAIN natTables => PointerSize("x64NativeTable") = 8
    /\ \A t \in DOMAIN natTables :
           natDicts[natTables[t].native_dictionary] = natTables[t].built
    /\ (natOp.op = "get_type" /\ natOp.type_name = <<"pointer">>
            /\ natOp.table = "x86NativeTable")
           => /\ natOp.result.status = "returned"
              /\ ChainGet(natOp.result.template, "struct_format") = "<I"

\* C19's case: both tables are built, native_types was assigned to after
\* that, and the first table is asked for 'pointer'.
C19_Witness ==
    /\ natPc = "loaded"
    /\ natDicts[NativeTypesId]["pointer"] = <<"Integer", "<H">>
    /\ natDicts[NativeTypesId]["int"] = <<"Pointer", "<I">>
    /\ natOp.op = "get_type"
    /\ natOp.table = "x86NativeTable"
    /\ natOp.type_name = <<"pointer">>
    /\ natOp.result.status = "returned"

----------------------------------------------------------------------------
(* SpecWrite: write() on the objects of each class *)

ObjectClasses == {"Void", "Integer", "BitField", "Enumeration", "Array", "Struct", "Union"}

\* The arguments given to write(): integers, and a bytes value of one byte
\* (v is that byte).
WriteValues ==
    {[type |-> "int", v |-> n] : n \in {-1, 0, 1, 255, 256}}
        \cup {[type |-> "bytes", v |-> 120]}

\* struct.pack of one integer: its bytes, lowest first, or struct.error when
\* the format cannot hold it.
Pack(format, n) ==
    LET bits == 8 * CalcSize(format)
        low == IF format.signed THEN 0 - Pow2(bits - 1) ELSE 0
        high == IF format.signed THEN Pow2(bits - 1) - 1 ELSE Pow2(bits) - 1
        bytes == [i \in 1..CalcSize(format) |-> ((n % Pow2(bits)) \div Pow2(8 * (i - 1))) % 256]
    IN IF n < low \/ n > high THEN [status |-> "struct.error"]
       ELSE [status |-> "packed",
             data |-> IF format.little THEN bytes ELSE Reversed(bytes)]

\* context.memory.write(layer_name, offset, data)
MemoryWrite(content, offset, data) ==
    [i \in 1..Len(content) |->
        IF offset < i /\ i <= offset + Len(data) THEN data[i - offset] ELSE content[i]]

\* A write() that stores what it is given, unchecked
WriteThrough(content, o, value) ==
    [status |-> "returned",
     content |-> MemoryWrite(content, o.offset, <<value.v % 256>>)]

\* PrimitiveObject.write, for an Integer (_struct_type is int)
PrimitiveWrite(content, o, value) ==
    IF value.type = "int"
    THEN LET packed == Pack(o.struct_format, value.v)
         IN IF packed.status # "packed" THEN [status |-> packed.status, content |-> content]
            ELSE [status |-> "returned", content |-> MemoryWrite(content, o.offset, packed.data)]
    ELSE [status |-> "TypeError", content |-> content]

\* Void.write
VoidWrite(content, o, value) == [status |-> "TypeError", content |-> content]

\* BitField.write
BitFieldWrite(content, o, value) == [status |-> "NotImplementedError", content |-> content]

\* Enumeration.write
EnumerationWrite(content, o, value) == [status |-> "NotImplementedError", content |-> content]

\* Array.write
ArrayWrite(content, o, value) == [status |-> "NotImplementedError", content |-> content]

\* Struct.write, which Union inherits
StructWrite(content, o, value) == [status |-> "TypeError", content |-> content]

\* o.write(value): the write method of the object's class.
Write(content, o, value) ==
    CASE o.class = "Void" -> VoidWrite(content, o, value)
      [] o.class = "Integer" -> PrimitiveWrite(content, o, value)
      [] o.class = "BitField" -> BitFieldWrite(content, o, value)
      [] o.class = "Enumeration" -> EnumerationWrite(content, o, value)
      [] o.class = "Array" -> ArrayWrite(content, o, value)
      [] o.class \in {"Struct", "Union"} -> StructWrite(content, o, value)

\* The layer's bytes are those of some image.
WriteLoadImage ==
    /\ wrImage = <<>>
    /\ wrImage' \in [1..WriteSize -> {0, 255}]
    /\ UNCHANGED wrOp
    /\ UNCHANGED <<objVars, tplVars, listVars, ptrVars, structVars, arrayVars, enumVars, bitVars, regVars, keyVars, vmVars, natVars, derefVars, amVars, rtVars, hmVars, pdbVars, psVars, rcVars, thVars>>

\* o.write(value) on an object of some class at some offset of the layer
WriteCall ==
    /\ wrImage # <<>>
    /\ \E class \in ObjectClasses, offset \in 0..(WriteSize - 1),
          format \in BaseFormats, value \in WriteValues :
          LET o == [class |-> class, offset |-> offset, struct_format |-> format]
              done == Write(wrImage, o, value)
          IN /\ wrImage' = done.content
             /\ wrOp' = [op |-> "write", object |-> o, value |-> value,
                         status |-> done.status, before |-> wrImage]
    /\ UNCHANGED <<objVars, tplVars, listVars, ptrVars, structVars, arrayVars, enumVars, bitVars, regVars, keyVars, vmVars, natVars, derefVars, amVars, rtVars, hmVars, pdbVars, psVars, rcVars, thVars>>

InitWrite == IdleWr /\ IdleObj /\ IdleTpl /\ IdleList /\ IdlePtr /\ IdleStruct /\ IdleArray /\ IdleEnum /\ IdleBit /\ IdleReg /\ IdleKey /\ IdleVm /\ IdleNat /\ IdleDeref /\ IdleAm /\ IdleRt /\ IdleHm /\ IdlePdb /\ IdlePs /\ IdleRc /\ IdleTh
NextWrite == WriteLoadImage \/ WriteCall
SpecWrite == InitWrite /\ [][NextWrite]_vars

----------------------------------------------------------------------------
(* SpecDeref: Pointer.dereference *)

\* The subtype templates a Pointer is declared with.
Subtypes == {IntegerTemplate, PointerTemplate}

\* The layer_name argument of dereference: a layer of the context, or None.
DereferenceLayers == LayerNames \cup {NoName}

\* The mask dereference would apply if it took it from the pointer's own layer
OwnLayerMask(p, layer_name) == AddressMask(p.layer_name)

\* mask = self._context.memory[layer_name].address_mask
TargetLayerMask(p, layer_name) == AddressMask(layer_name)

\* Pointer.dereference: the _vol of the object the subtype template constructs.
PointerDereference(p, subtype, layer_argument) ==
    LET layer_name == IF layer_argument = NoName THEN p.layer_name ELSE layer_argument
        mask == TargetLayerMask(p, layer_name)
        offset == And(p.value, mask)
    IN TemplateCall(subtype, ObjectInformation(layer_name, offset, NoName, p, NoName))

\* The one Pointer whose dereference is followed.
ConstructPointer == ptr = NoPointer /\ PointerNew

\* ptr.dereference(layer_name), for a pointer declared with some subtype; the
\* outcome keeps the pointer it was called on.
DereferenceCall ==
    /\ ptr.status = "constructed"
    /\ deref = NoDeref
    /\ \E subtype \in Subtypes, layer_argument \in DereferenceLayers :
          deref' = [op |-> "dereference", self |-> ptr, subtype |-> subtype,
                    layer_argument |-> layer_argument,
                    vol |-> PointerDereference(ptr, subtype, layer_argument)]
    /\ UNCHANGED <<objVars, tplVars, listVars, ptrVars, structVars, arrayVars, enumVars, bitVars, regVars, keyVars, vmVars, natVars, wrVars, amVars, rtVars, hmVars, pdbVars, psVars, rcVars, thVars>>

InitDeref == IdleDeref /\ IdleObj /\ IdleTpl /\ IdleList /\ IdlePtr /\ IdleStruct /\ IdleArray /\ IdleEnum /\ IdleBit /\ IdleReg /\ IdleKey /\ IdleVm /\ IdleNat /\ IdleWr /\ IdleAm /\ IdleRt /\ IdleHm /\ IdlePdb /\ IdlePs /\ IdleRc /\ IdleTh
NextDeref == LoadImage \/ ConstructPointer \/ DereferenceCall
SpecDeref == InitDeref /\ [][NextDeref]_vars

\* C21: the object dereference returns has the type of the pointer's declared
\* subtype, lives on the layer given (the pointer's own layer when none is
\* given), at the pointer's value ANDed with the address mask of that layer,
\* and has the pointer as parent.
C21_DereferenceTarget ==
    deref.op = "dereference" =>
        LET target == IF deref.layer_argument \in LayerNames
                      THEN deref.layer_argument ELSE deref.self.layer_name
        IN /\ Vol(deref.vol, "type_name") = Vol(deref.subtype, "type_name")
           /\ Vol(deref.vol, "layer_name") = target
           /\ Vol(deref.vol, "offset") = And(deref.self.value, AddressMask(target))
           /\ Vol(deref.vol, "parent") = deref.self

\* C21's case: a pointer of the wide layer whose value lies above the mask
\* of the narrow layer it is dereferenced into.
C21_Witness ==
    /\ deref.op = "dereference"
    /\ deref.self.layer_name = "wide"
    /\ deref.layer_argument = "primary"
    /\ deref.self.value > AddressMask("primary")
    /\ Vol(deref.vol, "offset") # deref.self.value

----------------------------------------------------------------------------
(* SpecAutomagic: automagic.run over a list of automagics *)

\* What a list element can be: an AutomagicInterface whose call returns, one
\* whose call raises an Exception, or an object of another class.
ListElements ==
    {[automagic |-> TRUE, raises |-> FALSE],
     [automagic |-> TRUE, raises |-> TRUE],
     [automagic |-> FALSE, raises |-> FALSE]}

AutomagicLists == UNION {[1..n -> ListElements] : n \in 0..MaxAutomagics}

\* An except clause that lets the exception leave run()
Reraise(exceptions, i) == [pc |-> "raised", exceptions |-> exceptions]

\* except Exception as excp: exceptions.append(...), and the loop goes on
ExceptClause(exceptions, i) == [pc |-> "invoke", exceptions |-> Append(exceptions, i)]

\* run(automagics, context, configurable, config_path)
RunCall ==
    /\ amPc = "idle"
    /\ amResult = NoAmResult
    /\ \E automagics \in AutomagicLists, configurable \in BOOLEAN :
          /\ amList' = automagics
          /\ amConfigurable' = configurable
    /\ amPc' = "check"
    /\ amIndex' = 1
    /\ UNCHANGED <<amInvoked, amExceptions, amResult>>
    /\ UNCHANGED <<objVars, tplVars, listVars, ptrVars, structVars, arrayVars, enumVars, bitVars, regVars, keyVars, vmVars, natVars, wrVars, derefVars, rtVars, hmVars, pdbVars, psVars, rcVars, thVars>>

\* One turn of the first loop: the isinstance check of an element
CheckElement ==
    /\ amPc = "check"
    /\ amIndex <= Len(amList)
    /\ IF amList[amIndex].automagic
       THEN /\ amIndex' = amIndex + 1
            /\ UNCHANGED <<amPc, amResult>>
       ELSE /\ amPc' = "idle"
            /\ amResult' = [status |-> "TypeError"]
            /\ UNCHANGED amIndex
    /\ UNCHANGED <<amList, amConfigurable, amInvoked, amExceptions>>
    /\ UNCHANGED <<objVars, tplVars, listVars, ptrVars, structVars, arrayVars, enumVars, bitVars, regVars, keyVars, vmVars, natVars, wrVars, derefVars, rtVars, hmVars, pdbVars, psVars, rcVars, thVars>>

\* The check of the configurable, and exceptions = []
CheckConfigurable ==
    /\ amPc = "check"
    /\ amIndex > Len(amList)
    /\ IF amConfigurable
       THEN /\ amPc' = "invoke"
            /\ amIndex' = 1
            /\ amExceptions' = <<>>
            /\ UNCHANGED amResult
       ELSE /\ amPc' = "idle"
            /\ amResult' = [status |-> "TypeError"]
            /\ UNCHANGED <<amIndex, amExceptions>>
    /\ UNCHANGED <<amList, amConfigurable, amInvoked>>
    /\ UNCHANGED <<objVars, tplVars, listVars, ptrVars, structVars, arrayVars, enumVars, bitVars, regVars, keyVars, vmVars, natVars, wrVars, derefVars, rtVars, hmVars, pdbVars, psVars, rcVars, thVars>>

\* One turn of the second loop: the automagic is called inside try/except
Invoke ==
    /\ amPc = "invoke"
    /\ amIndex <= Len(amList)
    /\ amInvoked' = Append(amInvoked, amIndex)
    /\ IF amList[amIndex].raises
       THEN LET handled == ExceptClause(amExceptions, amIndex)
            IN /\ amExceptions' = handled.exceptions
               /\ IF handled.pc = "invoke"
                  THEN amPc' = "invoke" /\ amIndex' = amIndex + 1 /\ UNCHANGED amResult
                  ELSE /\ amPc' = "idle"
                       /\ amResult' = [status |-> "Exception"]
                       /\ UNCHANGED amIndex
       ELSE /\ amIndex' = amIndex + 1
            /\ UNCHANGED <<amPc, amExceptions, amResult>>
    /\ UNCHANGED <<amList, amConfigurable>>
    /\ UNCHANGED <<objVars, tplVars, listVars, ptrVars, structVars, arrayVars, enumVars, bitVars, regVars, keyVars, vmVars, natVars, wrVars, derefVars, rtVars, hmVars, pdbVars, psVars, rcVars, thVars>>

\* return exceptions
RunReturn ==
    /\ amPc = "invoke"
    /\ amIndex > Len(amList)
    /\ amPc' = "idle"
    /\ amResult' = [status |-> "returned", exceptions |-> amExceptions]
    /\ UNCHANGED <<amList, amConfigurable, amIndex, amInvoked, amExceptions>>
    /\ UNCHANGED <<objVars, tplVars, listVars, ptrVars, structVars, arrayVars, enumVars, bitVars, regVars, keyVars, vmVars, natVars, wrVars, derefVars, rtVars, hmVars, pdbVars, psVars, rcVars, thVars>>

InitAutomagic == IdleAm /\ IdleObj /\ IdleTpl /\ IdleList /\ IdlePtr /\ IdleStruct /\ IdleArray /\ IdleEnum /\ IdleBit /\ IdleReg /\ IdleKey /\ IdleVm /\ IdleNat /\ IdleWr /\ IdleDeref /\ IdleRt /\ IdleHm /\ IdlePdb /\ IdlePs /\ IdleRc /\ IdleTh
NextAutomagic == RunCall \/ CheckElement \/ CheckConfigurable \/ Invoke \/ RunReturn
SpecAutomagic == InitAutomagic /\ [][NextAutomagic]_vars

\* The positions 1 .. n in increasing order.
Positions(n) == [i \in 1..n |-> i]

\* The positions of the list whose automagic raises, in increasing order.
RECURSIVE Failing(_, _)
Failing(automagics, n) ==
    IF n = 0 THEN <<>>
    ELSE IF automagics[n].raises THEN Append(Failing(automagics, n - 1), n)
         ELSE Failing(automagics, n - 1)

\* C22: with a configurable of the right class, run() calls the automagics
\* of the list once each and in list order, also after one of them raised;
\* no exception of an automagic leaves run(), and the list returned holds one
\* traceback per automagic that raised, in call order. With a list element
\* that is not an AutomagicInterface, run() raises TypeError and has called
\* no automagic.
C22_RunCatchesAndContinues ==
    /\ amInvoked = Positions(Len(amInvoked))
    /\ amResult.status # "Exception"
    /\ (amResult.status # "none" /\ amConfigurable /\ \A i \in 1..Len(amList) : amList[i].automagic)
          => /\ amResult.status = "returned"
             /\ amInvoked = Positions(Len(amList))
             /\ amResult.exceptions = Failing(amList, Len(amList))
    /\ (amResult.status # "none" /\ \E i \in 1..Len(amList) : ~amList[i].automagic)
          => /\ amResult.status = "TypeError"
             /\ amInvoked = <<>>

\* C22's case: the first automagic of three raised, the later ones were
\* still called, and the third raised too.
C22_Witness ==
    /\ Len(amList) = 3
    /\ amList[1].raises /\ ~amList[2].raises /\ amList[3].raises
    /\ amResult.status = "returned"
    /\ amResult.exceptions = <<1, 3>>
    /\ amInvoked = <<1, 2, 3>>

----------------------------------------------------------------------------
(* SpecRoundTrip: an Integer written to a layer and constructed again *)

\* The formats of an Integer that fit in the layer.
IntegerFormats == {f \in StructFormats : CalcSize(f) <= WriteSize}

\* The arguments given to write(): integers around the limits of the
\* formats, and a bytes value.
RoundTripValues ==
    {[type |-> "int", v |-> n] :
        n \in {-32769, -32768, -129, -128, -1, 0, 1, 127, 128, 255, 256, 258,
               32767, 32768, 65535, 65536}}
        \cup {[type |-> "bytes", v |-> 120]}

\* PrimitiveObject._struct_value over the bytes of the layer
StructValue(content, format, offset) ==
    LET length == CalcSize(format)
        data == SubSeq(content, offset + 1, offset + length)
    IN Unpack(format, data)

\* o.write(value) on an Integer of some format at some offset of the layer
IntegerWrite ==
    /\ wrImage # <<>>
    /\ rtOp.op \in {"none", "new"}
    /\ \E format \in IntegerFormats, offset \in 0..(WriteSize - 1), value \in RoundTripValues :
          /\ offset + CalcSize(format) <= WriteSize
          /\ LET o == [class |-> "Integer", offset |-> offset, struct_format |-> format]
                 done == PrimitiveWrite(wrImage, o, value)
             IN /\ wrImage' = done.content
                /\ rtOp' = [op |-> "write", object |-> o, value |-> value,
                            status |-> done.status, before |-> wrImage]
    /\ UNCHANGED wrOp
    /\ UNCHANGED <<objVars, tplVars, listVars, ptrVars, structVars, arrayVars, enumVars, bitVars, regVars, keyVars, vmVars, natVars, derefVars, amVars, hmVars, pdbVars, psVars, rcVars, thVars>>

\* PrimitiveObject.__new__ with no new_value, for an object of the type just
\* written, at the same offset of the same layer
IntegerNew ==
    /\ rtOp.op = "write"
    /\ rtOp' = [rtOp EXCEPT !.op = "new"] @@
                [result |-> StructValue(wrImage, rtOp.object.struct_format, rtOp.object.offset)]
    /\ UNCHANGED <<wrImage, wrOp>>
    /\ UNCHANGED <<objVars, tplVars, listVars, ptrVars, structVars, arrayVars, enumVars, bitVars, regVars, keyVars, vmVars, natVars, derefVars, amVars, hmVars, pdbVars, psVars, rcVars, thVars>>

InitRoundTrip == IdleRt /\ IdleObj /\ IdleTpl /\ IdleList /\ IdlePtr /\ IdleStruct /\ IdleArray /\ IdleEnum /\ IdleBit /\ IdleReg /\ IdleKey /\ IdleVm /\ IdleNat /\ IdleWr /\ IdleDeref /\ IdleAm /\ IdleHm /\ IdlePdb /\ IdlePs /\ IdleRc /\ IdleTh
NextRoundTrip == WriteLoadImage \/ IntegerWrite \/ IntegerNew
SpecRoundTrip == InitRoundTrip /\ [][NextRoundTrip]_vars

\* The integers struct.pack accepts for a format.
InRange(format, n) ==
    LET bits == 8 * CalcSize(format)
    IN IF format.signed THEN 0 - Pow2(bits - 1) <= n /\ n < Pow2(bits - 1)
       ELSE 0 <= n /\ n < Pow2(bits)

\* C23: after write(x) of an Integer with an integer x in the range of its
\* format, an object of the same type constructed at the same layer and
\* offset has the value x, and only the calcsize bytes at the offset differ
\* from the bytes before; write() with a value that is not an int raises
\* TypeError and leaves all bytes as they were.
C23_WriteReadRoundTrip ==
    rtOp.op = "new" =>
        LET o == rtOp.object
            size == CalcSize(o.struct_format)
        IN /\ (rtOp.value.type = "int" /\ InRange(o.struct_format, rtOp.value.v))
                 => /\ rtOp.status = "returned"
                    /\ rtOp.result = rtOp.value.v
                    /\ \A i \in 1..Len(wrImage) :
                          (i <= o.offset \/ i > o.offset + size) => wrImage[i] = rtOp.before[i]
           /\ rtOp.value.type # "int"
                 => /\ rtOp.status = "TypeError"
                    /\ wrImage = rtOp.before

\* C23's case: a negative value written in a two-byte signed format over
\* bytes that encoded another value, and read back.
C23_Witness ==
    /\ rtOp.op = "new"
    /\ rtOp.object.struct_format.name = "<h"
    /\ rtOp.value = [type |-> "int", v |-> -129]
    /\ rtOp.before = <<0, 0>>
    /\ rtOp.result = -129
    /\ wrImage = <<127, 255>>

----------------------------------------------------------------------------
(* SpecHiveMapping: the base layer of a RegistryHive, mapping and is_valid *)

\* config["base_layer"]
ConfigBaseLayer == <<"primary", 0>>

\* The processes list_processes yields: name and InheritedFromUniqueProcessId.
Processes ==
    {[name |-> "Registry", ppid |-> 4],
     [name |-> "Registry", ppid |-> 8],
     [name |-> "smss.exe", ppid |-> 4]}
ProcessLists == UNION {[1..n -> Processes] : n \in 0..MaxProcesses}

\* Whether proc.add_process_layer() can be called with no argument: the
\* _EPROCESS of extensions/__init__.py requires a context, so the call of
\* the constructor raises TypeError; other process classes take none.
ProcessClasses == {"context required", "no argument"}

\* The name of the layer add_process_layer adds for the i-th process.
ProcessLayer(i) == <<"primary_Process", i>>

\* The lengths of the two storages, or unreadable.
HiveStorages ==
    {[readable |-> TRUE, non_volatile |-> 4096, volatile |-> 24],
     [readable |-> TRUE, non_volatile |-> 24, volatile |-> 4096],
     [readable |-> FALSE, non_volatile |-> 0, volatile |-> 0]}

\* The first process of the list that the constructor re-homes onto, 0 if none.
RegistryProcess(processes) ==
    LET hits == {i \in 1..Len(processes) :
                    processes[i].name = "Registry" /\ processes[i].ppid = 4}
    IN IF hits = {} THEN 0 ELSE CHOOSE i \in hits : \A j \in hits : i <= j

\* RegistryHive.__init__
RegistryHiveInit(signature_valid, processes, process_class, storage) ==
    LET hit == RegistryProcess(processes)
    IN IF ~signature_valid THEN [status |-> "RegistryFormatException"]
       ELSE IF hit # 0 /\ process_class = "context required" THEN [status |-> "TypeError"]
       ELSE [status |-> "constructed",
             layout |-> 1,
             config_base_layer |-> ConfigBaseLayer,
             base_layer |-> IF hit = 0 THEN ConfigBaseLayer ELSE ProcessLayer(hit),
             maxaddr_non_volatile |-> IF storage.readable THEN storage.non_volatile ELSE LowBits31,
             maxaddr_volatile |-> IF storage.readable THEN storage.volatile ELSE LowBits31]

\* RegistryHive.mapping
Mapping(h, offset, length) ==
    IF length < 0 THEN [status |-> "ValueError"]
    ELSE LET translated == Translate(h, offset)
         IN IF translated.status # "returned" THEN [status |-> translated.status]
            ELSE [status |-> "returned",
                  response |-> << [offset |-> offset, mapped_offset |-> translated.value,
                                   length |-> length, layer |-> h.base_layer] >>]

\* RegistryHive.dependencies
Dependencies(h) == <<h.config_base_layer>>

\* RegistryHive.is_valid
IsValid(h, offset, length) == TRUE

\* The cell indexes asked for: bits 3, 4, 12 and the volatile bit.
MappingOffsets ==
    {[i \in BitPositions |-> IF i \in S THEN 1 ELSE 0] : S \in SUBSET {3, 4, 12, 31}}
MappingLengths == {-1, 0, 1}

\* The hive layer is constructed over the base layer of the configuration.
HiveLayerNew ==
    /\ hmHive = NoHmHive
    /\ \E signature_valid \in BOOLEAN, processes \in ProcessLists,
          process_class \in ProcessClasses, storage \in HiveStorages :
          LET hit == RegistryProcess(processes)
          IN /\ hmHive' = RegistryHiveInit(signature_valid, processes, process_class, storage)
             /\ hmLayers' = IF signature_valid /\ hit # 0 /\ process_class = "no argument"
                            THEN {ConfigBaseLayer, ProcessLayer(hit)}
                            ELSE {ConfigBaseLayer}
    /\ UNCHANGED hmOp
    /\ UNCHANGED <<objVars, tplVars, listVars, ptrVars, structVars, arrayVars, enumVars, bitVars, regVars, keyVars, vmVars, natVars, wrVars, derefVars, amVars, rtVars, pdbVars, psVars, rcVars, thVars>>

\* hive.mapping(offset, length)
MappingCall ==
    /\ hmHive.status = "constructed"
    /\ hmOp = NoHmOp
    /\ \E offset \in MappingOffsets, length \in MappingLengths :
          hmOp' = [op |-> "mapping", offset |-> offset, length |-> length,
                   result |-> Mapping(hmHive, offset, length)]
    /\ UNCHANGED <<hmLayers, hmHive>>
    /\ UNCHANGED <<objVars, tplVars, listVars, ptrVars, structVars, arrayVars, enumVars, bitVars, regVars, keyVars, vmVars, natVars, wrVars, derefVars, amVars, rtVars, pdbVars, psVars, rcVars, thVars>>

\* hive.is_valid(offset, length)
IsValidCall ==
    /\ hmHive.status = "constructed"
    /\ hmOp = NoHmOp
    /\ \E offset \in MappingOffsets, length \in MappingLengths :
          hmOp' = [op |-> "is_valid", offset |-> offset, length |-> length,
                   result |-> IsValid(hmHive, offset, length)]
    /\ UNCHANGED <<hmLayers, hmHive>>
    /\ UNCHANGED <<objVars, tplVars, listVars, ptrVars, structVars, arrayVars, enumVars, bitVars, regVars, keyVars, vmVars, natVars, wrVars, derefVars, amVars, rtVars, pdbVars, psVars, rcVars, thVars>>

\* The caller takes the outcome.
HiveCallDone ==
    /\ hmOp # NoHmOp
    /\ hmOp' = NoHmOp
    /\ UNCHANGED <<hmLayers, hmHive>>
    /\ UNCHANGED <<objVars, tplVars, listVars, ptrVars, structVars, arrayVars, enumVars, bitVars, regVars, keyVars, vmVars, natVars, wrVars, derefVars, amVars, rtVars, pdbVars, psVars, rcVars, thVars>>

InitHiveMapping == IdleHm /\ IdleObj /\ IdleTpl /\ IdleList /\ IdlePtr /\ IdleStruct /\ IdleArray /\ IdleEnum /\ IdleBit /\ IdleReg /\ IdleKey /\ IdleVm /\ IdleNat /\ IdleWr /\ IdleDeref /\ IdleAm /\ IdleRt /\ IdlePdb /\ IdlePs /\ IdleRc /\ IdleTh
NextHiveMapping == HiveLayerNew \/ MappingCall \/ IsValidCall \/ HiveCallDone
SpecHiveMapping == InitHiveMapping /\ [][NextHiveMapping]_vars

C28_ValidMeansMappable ==
    (hmOp.op = "is_valid" /\ hmOp.result) =>
        Mapping(hmHive, hmOp.offset, hmOp.length).status # "RegistryInvalidIndex"

----------------------------------------------------------------------------
(* SpecPdbScan: KernelPDBScanner.determine_valid_kernels *)

\* methods = [method_fixed_mapping, method_kdbg_offset, method_module_offset]
Methods == <<"method_fixed_mapping", "method_kdbg_offset", "method_module_offset">>

\* A virtual layer of potential_kernels: whether context.memory holds an
\* Intel layer under its name, and which methods find a kernel on it.
VirtualLayers == [intel : BOOLEAN, finds : [1..Len(Methods) -> BOOLEAN]]
PotentialKernels == UNION {[1..n -> VirtualLayers] : n \in 0..MaxVirtualLayers}

\* valid_kernels = method(self, context, vlayer, kernels, progress_callback)
AssignValid(valid_kernels, found) == found

\* What a method returns for a layer: an entry for the layer, or nothing.
MethodResult(layers, l, m) == IF layers[l].finds[m] THEN {l} ELSE {}

\* determine_valid_kernels(context, potential_kernels)
DetermineCall ==
    /\ pdbPc = "idle"
    /\ pdbResult = NoPdbResult
    /\ pdbKernels' \in PotentialKernels
    /\ pdbValid' = {}
    /\ pdbLayer' = 1
    /\ pdbPc' = "layer"
    /\ UNCHANGED <<pdbMethod, pdbCalls, pdbResult>>
    /\ UNCHANGED <<objVars, tplVars, listVars, ptrVars, structVars, arrayVars, enumVars, bitVars, regVars, keyVars, vmVars, natVars, wrVars, derefVars, amVars, rtVars, hmVars, psVars, rcVars, thVars>>

\* One turn of the outer loop up to the isinstance test
NextVirtualLayer ==
    /\ pdbPc = "layer"
    /\ pdbLayer <= Len(pdbKernels)
    /\ IF pdbKernels[pdbLayer].intel
       THEN pdbPc' = "method" /\ pdbMethod' = 1 /\ UNCHANGED pdbLayer
       ELSE pdbLayer' = pdbLayer + 1 /\ UNCHANGED <<pdbPc, pdbMethod>>
    /\ UNCHANGED <<pdbKernels, pdbCalls, pdbValid, pdbResult>>
    /\ UNCHANGED <<objVars, tplVars, listVars, ptrVars, structVars, arrayVars, enumVars, bitVars, regVars, keyVars, vmVars, natVars, wrVars, derefVars, amVars, rtVars, hmVars, psVars, rcVars, thVars>>

\* One turn of the inner loop: the method is called, and the loop is left
\* when its dictionary is not empty
CallMethod ==
    /\ pdbPc = "method"
    /\ LET valid_kernels == AssignValid(pdbValid, MethodResult(pdbKernels, pdbLayer, pdbMethod))
       IN /\ pdbValid' = valid_kernels
          /\ pdbCalls' = Append(pdbCalls, <<pdbLayer, pdbMethod>>)
          /\ IF valid_kernels # {} \/ pdbMethod = Len(Methods)
             THEN pdbPc' = "layer" /\ pdbLayer' = pdbLayer + 1 /\ UNCHANGED pdbMethod
             ELSE pdbMethod' = pdbMethod + 1 /\ UNCHANGED <<pdbPc, pdbLayer>>
    /\ UNCHANGED <<pdbKernels, pdbResult>>
    /\ UNCHANGED <<objVars, tplVars, listVars, ptrVars, structVars, arrayVars, enumVars, bitVars, regVars, keyVars, vmVars, natVars, wrVars, derefVars, amVars, rtVars, hmVars, psVars, rcVars, thVars>>

\* return valid_kernels
DetermineReturn ==
    /\ pdbPc = "layer"
    /\ pdbLayer > Len(pdbKernels)
    /\ pdbPc' = "idle"
    /\ pdbResult' = [status |-> "returned", valid_kernels |-> pdbValid]
    /\ UNCHANGED <<pdbKernels, pdbLayer, pdbMethod, pdbCalls, pdbValid>>
    /\ UNCHANGED <<objVars, tplVars, listVars, ptrVars, structVars, arrayVars, enumVars, bitVars, regVars, keyVars, vmVars, natVars, wrVars, derefVars, amVars, rtVars, hmVars, psVars, rcVars, thVars>>

InitPdbScan == IdlePdb /\ IdleObj /\ IdleTpl /\ IdleList /\ IdlePtr /\ IdleStruct /\ IdleArray /\ IdleEnum /\ IdleBit /\ IdleReg /\ IdleKey /\ IdleVm /\ IdleNat /\ IdleWr /\ IdleDeref /\ IdleAm /\ IdleRt /\ IdleHm /\ IdlePs /\ IdleRc /\ IdleTh
NextPdbScan == DetermineCall \/ NextVirtualLayer \/ CallMethod \/ DetermineReturn
SpecPdbScan == InitPdbScan /\ [][NextPdbScan]_vars

\* The calls the claim describes for one layer: the methods in order up to
\* and including the first that finds a kernel.
RECURSIVE CallsOfLayer(_, _, _)
CallsOfLayer(layers, l, m) ==
    IF m > Len(Methods) THEN <<>>
    ELSE IF layers[l].finds[m] THEN << <<l, m>> >>
         ELSE << <<l, m>> >> \o CallsOfLayer(layers, l, m + 1)

RECURSIVE CallsOfLayers(_, _)
CallsOfLayers(layers, l) ==
    IF l > Len(layers) THEN <<>>
    ELSE (IF layers[l].intel THEN CallsOfLayer(layers, l, 1) ELSE <<>>)
             \o CallsOfLayers(layers, l + 1)

\* The methods are tried in order for each Intel layer, up to the first that
\* finds a kernel.
MethodsInOrder ==
    pdbResult.status = "returned" => pdbCalls = CallsOfLayers(pdbKernels, 1)

\* A kernel found for some Intel layer makes the returned dictionary non-empty.
FoundIsReturned ==
    (/\ pdbResult.status = "returned"
     /\ \E l \in 1..Len(pdbKernels) :
           pdbKernels[l].intel /\ \E m \in 1..Len(Methods) : pdbKernels[l].finds[m])
        => pdbResult.valid_kernels # {}

\* C25: for each Intel virtual layer the three methods are tried in their
\* order up to the first that finds a kernel, and when some method finds a
\* kernel for some layer the dictionary returned is not empty, whatever the
\* layers processed after it.
C25_FoundKernelIsKept == MethodsInOrder /\ FoundIsReturned

----------------------------------------------------------------------------
(* SpecPsTree: PsTree.find_level over a process table *)

Pids == 1..MaxPid

\* None, as the value of proc
NoProc == 0

\* A process: its parent's pid (0 for none) and the offset it lives at.
ProcessRecords == [p_ppid : 0..MaxPid, offset : {0, 8}]

\* self._processes as _generator fills it: the processes by their p_pid.
ProcessTables == UNION {[S -> ProcessRecords] : S \in SUBSET Pids}

\* self._processes.get(pid, None)
GetProcess(processes, pid) == IF pid \in DOMAIN processes THEN pid ELSE NoProc

\* The level counter is followed exactly up to one above the number of pids;
\* beyond that the model keeps whether it is odd or even, so that a turn of the
\* loop always changes the state.
LevelCap == MaxPid + 1
CountUp(level) == IF level <= LevelCap THEN level + 1 ELSE LevelCap

\* The condition of the while loop
LoopCondition(processes, proc, seen_pids) ==
    /\ proc # NoProc
    /\ processes[proc].offset # 0
    /\ processes[proc].p_ppid # 0
    /\ processes[proc].p_ppid \notin seen_pids

\* find_level(pid), up to the loop
FindLevelCall ==
    /\ psPc = "idle"
    /\ \E processes \in ProcessTables :
          /\ processes # <<>>
          /\ \E pid \in DOMAIN processes :
                /\ psProcesses' = processes
                /\ psPid' = pid
                /\ psSeen' = {pid}
                /\ psProc' = GetProcess(processes, pid)
    /\ psLevel' = 0
    /\ psPc' = "loop"
    /\ UNCHANGED <<psChildren, psLevels>>
    /\ UNCHANGED <<objVars, tplVars, listVars, ptrVars, structVars, arrayVars, enumVars, bitVars, regVars, keyVars, vmVars, natVars, wrVars, derefVars, amVars, rtVars, hmVars, pdbVars, rcVars, thVars>>

\* One turn of the while loop
FindLevelStep ==
    /\ psPc = "loop"
    /\ LoopCondition(psProcesses, psProc, psSeen)
    /\ LET ppid == psProcesses[psProc].p_ppid
           child_list == IF ppid \in DOMAIN psChildren THEN psChildren[ppid] ELSE {}
       IN /\ psChildren' = Updated(psChildren, [p \in {ppid} |-> child_list \cup {psProc}])
          /\ psProc' = GetProcess(psProcesses, ppid)
    /\ psLevel' = CountUp(psLevel)
    /\ UNCHANGED <<psProcesses, psLevels, psPc, psPid, psSeen>>
    /\ UNCHANGED <<objVars, tplVars, listVars, ptrVars, structVars, arrayVars, enumVars, bitVars, regVars, keyVars, vmVars, natVars, wrVars, derefVars, amVars, rtVars, hmVars, pdbVars, rcVars, thVars>>

\* self._levels[pid] = level, once the loop is left
FindLevelRecord ==
    /\ psPc = "loop"
    /\ ~LoopCondition(psProcesses, psProc, psSeen)
    /\ psLevels' = Updated(psLevels, [p \in {psPid} |-> psLevel])
    /\ psPc' = "done"
    /\ UNCHANGED <<psProcesses, psChildren, psPid, psSeen, psLevel, psProc>>
    /\ UNCHANGED <<objVars, tplVars, listVars, ptrVars, structVars, arrayVars, enumVars, bitVars, regVars, keyVars, vmVars, natVars, wrVars, derefVars, amVars, rtVars, hmVars, pdbVars, rcVars, thVars>>

InitPsTree == IdlePs /\ IdleObj /\ IdleTpl /\ IdleList /\ IdlePtr /\ IdleStruct /\ IdleArray /\ IdleEnum /\ IdleBit /\ IdleReg /\ IdleKey /\ IdleVm /\ IdleNat /\ IdleWr /\ IdleDeref /\ IdleAm /\ IdleRt /\ IdleHm /\ IdlePdb /\ IdleRc /\ IdleTh
NextPsTree == FindLevelCall \/ FindLevelStep \/ FindLevelRecord
SpecPsTree == InitPsTree /\ [][NextPsTree]_vars
\* find_level runs on one thread that takes its next step whenever it has one.
SpecPsTreeFair == SpecPsTree /\ WF_vars(NextPsTree)

\* C26: find_level(pid) comes to its end for every process table, also when
\* the parent links form a cycle that pid is not on, and the level it
\* records is at most the number of processes.
C26_FindLevelTerminates ==
    <>(/\ psPc = "done"
       /\ psLevels[psPid] <= Cardinality(DOMAIN psProcesses))

----------------------------------------------------------------------------
(* SpecReplaceChild: Struct.VolTemplateProxy.replace_child *)

\* The names a struct's members may have; one struct has a member that is
\* itself called members.
ChildNames == {"Flink", "Blink", "members"}
ChildOffsets == {0, 4}
ChildTemplates == {IntegerTemplate, PointerTemplate}

\* members: name -> (relative_offset, template)
ChildLayouts ==
    UNION {[S -> ChildOffsets \X ChildTemplates] : S \in SUBSET ChildNames}

\* Struct.VolTemplateProxy.replace_child: the loop runs over
\* template.vol.members.get('members', {}), that is over the value stored
\* under the member name 'members': nothing when no member has that name,
\* else the tuple (relative_offset, template) of that member, whose first
\* element is then looked up in members as if it were a member name.
ReplaceChild(template, old_child, new_child) ==
    LET members == Vol(template, "members")
    IN IF "members" \notin DOMAIN members
       THEN [status |-> "returned", template |-> template]
       ELSE [status |-> "KeyError", template |-> template]

\* A Struct template is made for some members.
StructTemplateNew ==
    /\ rcTemplate = NoTemplate
    /\ \E members \in ChildLayouts :
          rcTemplate' = TemplateInit(<<"a", "!", "s">>,
                                     [object_class |-> "Struct", size |-> 8, members |-> members])
    /\ UNCHANGED rcOp
    /\ UNCHANGED <<objVars, tplVars, listVars, ptrVars, structVars, arrayVars, enumVars, bitVars, regVars, keyVars, vmVars, natVars, wrVars, derefVars, amVars, rtVars, hmVars, pdbVars, psVars, thVars>>

\* replace_child(template, old_child, new_child)
ReplaceChildCall ==
    /\ rcTemplate # NoTemplate
    /\ rcOp = NoRcOp
    /\ \E old_child \in ChildTemplates, new_child \in ChildTemplates :
          LET done == ReplaceChild(rcTemplate, old_child, new_child)
          IN /\ rcTemplate' = done.template
             /\ rcOp' = [op |-> "replace_child", old_child |-> old_child,
                         new_child |-> new_child, status |-> done.status,
                         before |-> Vol(rcTemplate, "members")]
    /\ UNCHANGED <<objVars, tplVars, listVars, ptrVars, structVars, arrayVars, enumVars, bitVars, regVars, keyVars, vmVars, natVars, wrVars, derefVars, amVars, rtVars, hmVars, pdbVars, psVars, thVars>>

InitReplaceChild == IdleRc /\ IdleObj /\ IdleTpl /\ IdleList /\ IdlePtr /\ IdleStruct /\ IdleArray /\ IdleEnum /\ IdleBit /\ IdleReg /\ IdleKey /\ IdleVm /\ IdleNat /\ IdleWr /\ IdleDeref /\ IdleAm /\ IdleRt /\ IdleHm /\ IdlePdb /\ IdlePs /\ IdleTh
NextReplaceChild == StructTemplateNew \/ ReplaceChildCall
SpecReplaceChild == InitReplaceChild /\ [][NextReplaceChild]_vars

\* C27: after replace_child(template, old_child, new_child) every member
\* whose template was old_child has new_child at its old relative offset,
\* and every other member is as before.
C27_ReplaceChildSubstitutes ==
    rcOp.op = "replace_child" =>
        LET after == Vol(rcTemplate, "members")
        IN /\ rcOp.status = "returned"
           /\ DOMAIN after = DOMAIN rcOp.before
           /\ \A name \in DOMAIN rcOp.before :
                 after[name] = IF rcOp.before[name][2] = rcOp.old_child
                               THEN <<rcOp.before[name][1], rcOp.new_child>>
                               ELSE rcOp.before[name]

----------------------------------------------------------------------------
(* SpecStructThreads: Struct.__getattr__ called from several threads *)

\* The two callers that access the members of the one Struct.
CallerIds == {1, 2}

\* The members the Struct declares, and a name it does not declare.
DeclaredMembers == {"Flink", "Blink"}

\* What an access returns when it raises, and before any access.
RaisedAttributeError == -1
NothingReturned == 0

\* A membership check that never finds the member
NeverCached(cache, attr) == FALSE

\* attr in self._concrete_members
IsCached(cache, attr) == attr \in DOMAIN cache

\* The member is cached and no caller is between its membership check and
\* its cache store for it: the accesses that raced for it have completed.
Settled(attr) ==
    /\ attr \in DOMAIN thCache
    /\ \A t \in CallerIds : ~(thPc[t] \in {"construct", "store"} /\ thAttr[t] = attr)

\* The Struct is constructed; no caller has asked for anything.
ShareStruct ==
    /\ thPc = <<>>
    /\ thPc' = [t \in CallerIds |-> "idle"]
    /\ thAttr' = [t \in CallerIds |-> "Missing"]
    /\ thMember' = [t \in CallerIds |-> 0]
    /\ thResult' = [t \in CallerIds |-> NothingReturned]
    /\ thFirst' = [t \in CallerIds |-> NothingReturned]
    /\ thSettled' = [t \in CallerIds |-> NothingReturned]
    /\ UNCHANGED <<thCache, thHeap>>
    /\ UNCHANGED <<objVars, tplVars, listVars, ptrVars, structVars, arrayVars, enumVars, bitVars, regVars, keyVars, vmVars, natVars, wrVars, derefVars, amVars, rtVars, hmVars, pdbVars, psVars, rcVars>>

\* A caller enters __getattr__(attr)
GetAttrEnter(t) ==
    /\ thPc # <<>>
    /\ thPc[t] = "idle"
    /\ \E attr \in AttributeNames \ {"Size"} :
          /\ thAttr' = [thAttr EXCEPT ![t] = attr]
          /\ thSettled' = [thSettled EXCEPT ![t] =
                                IF Settled(attr) THEN thCache[attr] ELSE NothingReturned]
    /\ thPc' = [thPc EXCEPT ![t] = "check"]
    /\ UNCHANGED <<thCache, thHeap, thMember, thResult, thFirst>>
    /\ UNCHANGED <<objVars, tplVars, listVars, ptrVars, structVars, arrayVars, enumVars, bitVars, regVars, keyVars, vmVars, natVars, wrVars, derefVars, amVars, rtVars, hmVars, pdbVars, psVars, rcVars>>

\* if attr in _concrete_members ... elif attr in self.vol.members ... raise
GetAttrCheck(t) ==
    /\ thPc # <<>>
    /\ thPc[t] = "check"
    /\ IF IsCached(thCache, thAttr[t])
       THEN thPc' = [thPc EXCEPT ![t] = "read"] /\ UNCHANGED thResult
       ELSE IF thAttr[t] \in DeclaredMembers
       THEN thPc' = [thPc EXCEPT ![t] = "construct"] /\ UNCHANGED thResult
       ELSE /\ thPc' = [thPc EXCEPT ![t] = "idle"]
            /\ thResult' = [thResult EXCEPT ![t] = RaisedAttributeError]
    /\ UNCHANGED <<thCache, thHeap, thAttr, thMember, thFirst, thSettled>>
    /\ UNCHANGED <<objVars, tplVars, listVars, ptrVars, structVars, arrayVars, enumVars, bitVars, regVars, keyVars, vmVars, natVars, wrVars, derefVars, amVars, rtVars, hmVars, pdbVars, psVars, rcVars>>

\* return self._concrete_members[attr]
GetAttrRead(t) ==
    /\ thPc # <<>>
    /\ thPc[t] = "read"
    /\ thResult' = [thResult EXCEPT ![t] = thCache[thAttr[t]]]
    /\ thFirst' = IF thAttr[t] = "Flink" /\ thFirst[t] = NothingReturned
                  THEN [thFirst EXCEPT ![t] = thCache[thAttr[t]]] ELSE thFirst
    /\ thPc' = [thPc EXCEPT ![t] = "idle"]
    /\ UNCHANGED <<thCache, thHeap, thAttr, thMember, thSettled>>
    /\ UNCHANGED <<objVars, tplVars, listVars, ptrVars, structVars, arrayVars, enumVars, bitVars, regVars, keyVars, vmVars, natVars, wrVars, derefVars, amVars, rtVars, hmVars, pdbVars, psVars, rcVars>>

\* member = member(context, object_info): a new member object
GetAttrConstruct(t) ==
    /\ thPc # <<>>
    /\ thPc[t] = "construct"
    /\ thHeap < MaxMemberObjects
    /\ thHeap' = thHeap + 1
    /\ thMember' = [thMember EXCEPT ![t] = thHeap + 1]
    /\ thPc' = [thPc EXCEPT ![t] = "store"]
    /\ UNCHANGED <<thCache, thAttr, thResult, thFirst, thSettled>>
    /\ UNCHANGED <<objVars, tplVars, listVars, ptrVars, structVars, arrayVars, enumVars, bitVars, regVars, keyVars, vmVars, natVars, wrVars, derefVars, amVars, rtVars, hmVars, pdbVars, psVars, rcVars>>

\* self._concrete_members[attr] = member; return member
GetAttrStore(t) ==
    /\ thPc # <<>>
    /\ thPc[t] = "store"
    /\ thCache' = CacheStore(thCache, thAttr[t], thMember[t])
    /\ thResult' = [thResult EXCEPT ![t] = thMember[t]]
    /\ thFirst' = IF thAttr[t] = "Flink" /\ thFirst[t] = NothingReturned
                  THEN [thFirst EXCEPT ![t] = thMember[t]] ELSE thFirst
    /\ thPc' = [thPc EXCEPT ![t] = "idle"]
    /\ UNCHANGED <<thHeap, thAttr, thMember, thSettled>>
    /\ UNCHANGED <<objVars, tplVars, listVars, ptrVars, structVars, arrayVars, enumVars, bitVars, regVars, keyVars, vmVars, natVars, wrVars, derefVars, amVars, rtVars, hmVars, pdbVars, psVars, rcVars>>

InitStructThreads == IdleTh /\ IdleObj /\ IdleTpl /\ IdleList /\ IdlePtr /\ IdleStruct /\ IdleArray /\ IdleEnum /\ IdleBit /\ IdleReg /\ IdleKey /\ IdleVm /\ IdleNat /\ IdleWr /\ IdleDeref /\ IdleAm /\ IdleRt /\ IdleHm /\ IdlePdb /\ IdlePs /\ IdleRc
NextStructThreads ==
    \/ ShareStruct
    \/ \E t \in CallerIds :
          \/ GetAttrEnter(t)
          \/ GetAttrCheck(t)
          \/ GetAttrRead(t)
          \/ GetAttrConstruct(t)
          \/ GetAttrStore(t)
SpecStructThreads == InitStructThreads /\ [][NextStructThreads]_vars

\* C30: the check, the construction and the store of __getattr__ are
\* separate steps, so two callers can both construct the same member; an
\* access that begins once the accesses that raced have completed constructs
\* nothing and returns the object then in the cache, which stays the one in
\* the cache from then on.
C30_CacheSettlesAfterRace ==
    thPc # <<>> =>
        \A t \in CallerIds :
            thSettled[t] # NothingReturned =>
                /\ thPc[t] \notin {"construct", "store"}
                /\ thCache[thAttr[t]] = thSettled[t]
                /\ thPc[t] = "idle" => thResult[t] = thSettled[t]

\* C30's case: the first accesses of the two callers to Flink interleaved and
\* returned different objects, and an access made after both completed
\* returned the object stored last.
C30_Witness ==
    /\ thPc = [t \in CallerIds |-> "idle"]
    /\ thFirst[1] = 1
    /\ thFirst[2] = 2
    /\ thCache["Flink"] = 1
    /\ thAttr[2] = "Flink"
    /\ thResult[2] = 1
    /\ thSettled[2] = 1

====
